---------------------------- MODULE Spec2Model ----------------------------
(***************************************************************************)
(* Spot/perpetual arbitrage coordinator (arbitrage_bot.py, fill_handler.py)*)
(*                                                                         *)
(* Units.  Base quantities are integers counted in the venue's spot step;  *)
(* cfg.lot_size is LotSize of them (run.py:249-259 raises lot_size to the  *)
(* larger of the spot and the perpetual lot, so a spot fill can be a       *)
(* fraction of a lot).  Prices are integers counted in ticks.  The float   *)
(* tolerance 1e-12 of the code is exact comparison on integers.            *)
(***************************************************************************)
EXTENDS Integers, Sequences, FiniteSets, TLC

\* ------------------------------------------------------------------ config

\* StrategyConfig.lot_size, in quantity units.
LotSize == 2
\* StrategyConfig.min_order_qty (the default equals lot_size).
MinOrderQty == 2
\* StrategyConfig.max_retry.
MaxRetry == 3
\* StrategyConfig.total_budget, in quantity units.
TotalBudget == 4
\* StrategyConfig.budget_pct, in percent.
BudgetPct == 1
\* StrategyConfig.depth_ratio, in percent.
DepthRatioPct == 30
\* StrategyConfig.reprice_bps, in tenths of a basis point.
RepriceBpsX10 == 5
\* StrategyConfig.tick_size_spot, in ticks.
TickSize == 1
\* The reprice floor of _need_reprice_level, in ticks.
RepriceTicks == 3
\* FeeConfig.min_spread_bps.
MinSpreadBps == -18
\* The notional floor 5.5 of _select_all_levels, times ten.
MinNotionalX10 == 55
\* The notional floor 5.5 of _run_close_task, times ten.
CloseNotionalX10 == 55
\* max_rounds of _run_close_task.
MaxCloseRounds == 200
\* _LEVEL_WEIGHTS, in percent.
LevelWeights == <<20, 30, 50>>
\* The levels quoted, in the iteration order of _LEVEL_WEIGHTS.
Levels == {1, 2, 3}

\* ------------------------------------------------------------------ bounds

\* Push events the queue holds at most.
MaxQueue == 1
\* Order ids beyond the three a ladder holds (ids are reused once forgotten).
SpareOids == 1
\* The ledger counters are explored up to this value.
MaxLedger == 4
\* Deepest ladder level the market trades through.
MaxFillLevel == 2
\* Deepest ladder level the market fills in parts.
MaxPartialLevel == 1
\* Largest quantity handed to try_hedge in SpecHedge.
MaxHedgeArg == 5
\* Largest bid price drawn in SpecSelect.
MaxSelPrice == 3
\* Lots of the order of SpecRound, at most.
MaxRoundLots == 4
\* Largest total of the fills handed to the hedger in SpecCarry.
MaxCarry == 6
\* Push events the queue holds at most in SpecEvents.
MaxEvents == 2
\* Operations on the hedger's counters the threads of SpecLock begin, at most.
MaxOps == 3
\* Lots a close command asks to sell, at most.
MaxCloseLots == 4
\* Close tasks started one after the other in SpecClose, at most.
MaxCloseTasks == 2
\* Rounds a close task is given in SpecClose (the code gives MaxCloseRounds,
\* explored in SpecCloseRounds).
CloseRoundsExplored == 2

OIDs == 1..(3 + SpareOids)

Min(a, b) == IF a <= b THEN a ELSE b
Max(a, b) == IF a >= b THEN a ELSE b
Abs(a) == IF a >= 0 THEN a ELSE -a

\* int(x / lot) * lot for x >= 0.
FloorLot(x) == (x \div LotSize) * LotSize

\* ------------------------------------------------------------------ state

VARIABLES
    active_orders,       \* order_id -> LevelOrder
    level_to_oid,        \* level_idx -> order_id
    naked_exposure,
    total_filled_base,
    total_hedged_base,
    paused,
    requote_all_levels,
    fill_queue,          \* sequence of push events [order_id, filled_qty]
    venue,               \* the spot venue's book of this engine's orders
    pc,                  \* position of the Coordinator inside run()'s loop body
    last,                \* what the last completed tick did (history)
    hres,                \* SpecHedge: the last try_hedge call and its result
    sel,                 \* SpecSelect: the last selection and its inputs
    running,             \* _running, the flag run() tests at every iteration
    close_task,          \* the close task: its flag, its thread's locals
    hedge_threads        \* SpecLock: the threads inside the hedger

vars == <<active_orders, level_to_oid, naked_exposure, total_filled_base,
          total_hedged_base, paused, requote_all_levels, fill_queue, venue,
          pc, last, hres, sel, running, close_task, hedge_threads>>


\* ------------------------------------------------------------------ hedger

\* What the perpetual venue answers to one market sell.
Answers == {"ok", "err", "small"}
\* One answer per attempt of a retry loop.
Scripts == [1..MaxRetry -> Answers]
AllOk == [i \in 1..MaxRetry |-> "ok"]
AllErr == [i \in 1..MaxRetry |-> "err"]
AllSmall == [i \in 1..MaxRetry |-> "small"]

\* The attempt of `for i in range(max_retry)` that leaves the loop: the first
\* one that does not raise a transient error; 0 when every attempt raises one.
FirstAnswer(resp) ==
    IF \E i \in 1..MaxRetry : resp[i] # "err"
    THEN CHOOSE i \in 1..MaxRetry :
            resp[i] # "err" /\ \A j \in 1..(i - 1) : resp[j] = "err"
    ELSE 0

\* try_hedge without the write of the sub-lot total to naked_exposure.
TryHedgeDropsSubLot(naked, hedged, qty, resp) ==
    LET total_to_hedge == Max(0, qty + naked)
        hedge_qty == FloorLot(total_to_hedge)
        residual == Max(0, total_to_hedge - hedge_qty)
        k == FirstAnswer(resp)
    IN  IF qty <= 0 /\ total_to_hedge <= 0
        THEN [ok |-> TRUE, hedged_qty |-> 0, naked |-> naked,
              hedged |-> hedged, submits |-> 0]
        ELSE IF hedge_qty < LotSize
        THEN [ok |-> TRUE, hedged_qty |-> 0, naked |-> naked,
              hedged |-> hedged, submits |-> 0]
        ELSE IF k = 0
        THEN [ok |-> FALSE, hedged_qty |-> 0, naked |-> total_to_hedge,
              hedged |-> hedged, submits |-> MaxRetry]
        ELSE IF resp[k] = "ok"
        THEN [ok |-> ~(residual > 0), hedged_qty |-> hedge_qty,
              naked |-> residual, hedged |-> hedged + hedge_qty,
              submits |-> k]
        ELSE [ok |-> FALSE, hedged_qty |-> 0, naked |-> total_to_hedge,
              hedged |-> hedged, submits |-> k]

\* try_hedge that goes on retrying after a notional rejection.
TryHedgeRetriesSmall(naked, hedged, qty, resp) ==
    LET total_to_hedge == Max(0, qty + naked)
        hedge_qty == FloorLot(total_to_hedge)
        residual == Max(0, total_to_hedge - hedge_qty)
        accepted == {i \in 1..MaxRetry : resp[i] = "ok"}
    IN  IF qty <= 0 /\ total_to_hedge <= 0
        THEN [ok |-> TRUE, hedged_qty |-> 0, naked |-> naked,
              hedged |-> hedged, submits |-> 0]
        ELSE IF hedge_qty < LotSize
        THEN [ok |-> TRUE, hedged_qty |-> 0, naked |-> total_to_hedge,
              hedged |-> hedged, submits |-> 0]
        ELSE IF accepted = {}
        THEN [ok |-> FALSE, hedged_qty |-> 0, naked |-> total_to_hedge,
              hedged |-> hedged, submits |-> MaxRetry]
        ELSE [ok |-> ~(residual > 0), hedged_qty |-> hedge_qty,
              naked |-> residual, hedged |-> hedged + hedge_qty,
              submits |-> CHOOSE i \in accepted :
                              \A j \in accepted : i <= j]

\* try_hedge without the write to naked_exposure after the last retry.
TryHedgeForgetsExhausted(naked, hedged, qty, resp) ==
    LET total_to_hedge == Max(0, qty + naked)
        hedge_qty == FloorLot(total_to_hedge)
        residual == Max(0, total_to_hedge - hedge_qty)
        k == FirstAnswer(resp)
    IN  IF qty <= 0 /\ total_to_hedge <= 0
        THEN [ok |-> TRUE, hedged_qty |-> 0, naked |-> naked,
              hedged |-> hedged, submits |-> 0]
        ELSE IF hedge_qty < LotSize
        THEN [ok |-> TRUE, hedged_qty |-> 0, naked |-> total_to_hedge,
              hedged |-> hedged, submits |-> 0]
        ELSE IF k = 0
        THEN [ok |-> FALSE, hedged_qty |-> 0, naked |-> naked,
              hedged |-> hedged, submits |-> MaxRetry]
        ELSE IF resp[k] = "ok"
        THEN [ok |-> ~(residual > 0), hedged_qty |-> hedge_qty,
              naked |-> residual, hedged |-> hedged + hedge_qty,
              submits |-> k]
        ELSE [ok |-> FALSE, hedged_qty |-> 0, naked |-> total_to_hedge,
              hedged |-> hedged, submits |-> k]

\* try_hedge that clears naked_exposure after an accepted sell instead of
\* keeping the residual.
TryHedgeClearsResidual(naked, hedged, qty, resp) ==
    LET total_to_hedge == Max(0, qty + naked)
        hedge_qty == FloorLot(total_to_hedge)
        residual == Max(0, total_to_hedge - hedge_qty)
        k == FirstAnswer(resp)
    IN  IF qty <= 0 /\ total_to_hedge <= 0
        THEN [ok |-> TRUE, hedged_qty |-> 0, naked |-> naked,
              hedged |-> hedged, submits |-> 0]
        ELSE IF hedge_qty < LotSize
        THEN [ok |-> TRUE, hedged_qty |-> 0, naked |-> total_to_hedge,
              hedged |-> hedged, submits |-> 0]
        ELSE IF k = 0
        THEN [ok |-> FALSE, hedged_qty |-> 0, naked |-> total_to_hedge,
              hedged |-> hedged, submits |-> MaxRetry]
        ELSE IF resp[k] = "ok"
        THEN [ok |-> ~(residual > 0), hedged_qty |-> hedge_qty,
              naked |-> 0, hedged |-> hedged + hedge_qty,
              submits |-> k]
        ELSE [ok |-> FALSE, hedged_qty |-> 0, naked |-> total_to_hedge,
              hedged |-> hedged, submits |-> k]

\* FillHandler.try_hedge on (naked_exposure, total_hedged_base): the result
\* (ok, hedged_qty), the two counters after the call and the number of market
\* sells submitted.
TryHedge(naked, hedged, qty, resp) ==
    LET total_to_hedge == Max(0, qty + naked)
        hedge_qty == FloorLot(total_to_hedge)
        residual == Max(0, total_to_hedge - hedge_qty)
        k == FirstAnswer(resp)
    IN  IF qty <= 0 /\ total_to_hedge <= 0
        THEN [ok |-> TRUE, hedged_qty |-> 0, naked |-> naked,
              hedged |-> hedged, submits |-> 0]
        ELSE IF hedge_qty < LotSize
        THEN [ok |-> TRUE, hedged_qty |-> 0, naked |-> total_to_hedge,
              hedged |-> hedged, submits |-> 0]
        ELSE IF k = 0
        THEN [ok |-> FALSE, hedged_qty |-> 0, naked |-> total_to_hedge,
              hedged |-> hedged, submits |-> MaxRetry]
        ELSE IF resp[k] = "ok"
        THEN [ok |-> ~(residual > 0), hedged_qty |-> hedge_qty,
              naked |-> residual, hedged |-> hedged + hedge_qty,
              submits |-> k]
        ELSE [ok |-> FALSE, hedged_qty |-> 0, naked |-> total_to_hedge,
              hedged |-> hedged, submits |-> k]

\* FillHandler.try_recover_naked_exposure on the same two counters.
\* A recovery that keeps the exposure and reports failure when the venue
\* rejects the sell as notional too small.
TryRecoverKeepsDust(naked, hedged, resp) ==
    LET hedge_qty == FloorLot(naked)
        k == FirstAnswer(resp)
    IN  IF naked <= 0 \/ naked < LotSize
        THEN [ok |-> TRUE, naked |-> naked, hedged |-> hedged, submits |-> 0]
        ELSE IF k = 0
        THEN [ok |-> FALSE, naked |-> naked, hedged |-> hedged,
              submits |-> MaxRetry]
        ELSE IF resp[k] = "ok"
        THEN [ok |-> TRUE, naked |-> Max(0, naked - hedge_qty),
              hedged |-> hedged + hedge_qty, submits |-> k]
        ELSE [ok |-> FALSE, naked |-> naked, hedged |-> hedged,
              submits |-> k]

TryRecover(naked, hedged, resp) ==
    LET hedge_qty == FloorLot(naked)
        k == FirstAnswer(resp)
    IN  IF naked <= 0 \/ naked < LotSize
        THEN [ok |-> TRUE, naked |-> naked, hedged |-> hedged, submits |-> 0]
        ELSE IF k = 0
        THEN [ok |-> FALSE, naked |-> naked, hedged |-> hedged,
              submits |-> MaxRetry]
        ELSE IF resp[k] = "ok"
        THEN [ok |-> TRUE, naked |-> Max(0, naked - hedge_qty),
              hedged |-> hedged + hedge_qty, submits |-> k]
        ELSE [ok |-> TRUE, naked |-> 0, hedged |-> hedged, submits |-> k]


\* The commit of try_recover_naked_exposure for the snapshot it took under
\* the hedge lock, on the counters as they are when it commits.
RecoverAt(snapshot, naked, hedged, resp) ==
    LET hedge_qty == FloorLot(snapshot)
        k == FirstAnswer(resp)
    IN  IF snapshot <= 0 \/ snapshot < LotSize
        THEN [naked |-> naked, hedged |-> hedged]
        ELSE IF k = 0
        THEN [naked |-> naked, hedged |-> hedged]
        ELSE IF resp[k] = "ok"
        THEN [naked |-> Max(0, naked - hedge_qty),
              hedged |-> hedged + hedge_qty]
        ELSE [naked |-> 0, hedged |-> hedged]

\* ------------------------------------------------------------------ fills

(***************************************************************************)
(* The operations below are written on a record s of the engine's state    *)
(* and the venue's, so that one handler is the composition of the calls it *)
(* makes:  ao = active_orders, l2o = level_to_oid, naked, filled, hedged   *)
(* = the ledger, requote = requote_all_levels, q = fill_queue, ven = the   *)
(* venue's orders; placed = the ids placed by the step, cancelled = the ids *)
(* it cancelled, nakedPlace = whether it placed an order while             *)
(* naked_exposure >= lot_size, found = the unhedged quantity the step's     *)
(* cancels detected, handed = the part of it the step passed to try_hedge, *)
(* u = the unhedged total the running call is summing.                     *)
(***************************************************************************)

RECURSIVE SumOver(_, _)
SumOver(f, D) ==
    IF D = {} THEN 0
    ELSE LET x == CHOOSE y \in D : TRUE IN f[x] + SumOver(f, D \ {x})

\* A query that answers the order-not-found sentinel for every order.
PullNotFound(s, oid) == -1

\* adapter.get_order_filled_qty: the cumulative filled quantity, or the
\* sentinel -1 for an order the venue does not know.
Pull(s, oid) == IF s.ven[oid].qty > 0 THEN s.ven[oid].filled ELSE -1

\* FillHandler.drain_fill_queue: the last queued cumulative quantity of every
\* order that is active; events of other orders are dropped.
DrainedFills(s) ==
    LET ids == {s.q[i].order_id : i \in DOMAIN s.q} \cap DOMAIN s.ao
    IN  [o \in ids |->
            LET i == CHOOSE j \in DOMAIN s.q :
                        /\ s.q[j].order_id = o
                        /\ \A k \in DOMAIN s.q : s.q[k].order_id = o => k <= j
            IN  s.q[i].filled_qty]

\* FillHandler.record_spot_fill.
RecordSpotFill(s, oid, cum_filled) ==
    LET new_fill == cum_filled - s.ao[oid].accounted_qty
    IN  IF new_fill <= 0 THEN s
        ELSE [s EXCEPT !.filled = @ + new_fill,
                       !.ao[oid].accounted_qty = cum_filled]

\* The credit step of detect_fills_on_cancel for a cumulative quantity: the
\* part not yet credited to the order is credited and added to s.u, the
\* unhedged total the caller is summing.
CreditOnCancel(s, oid, cum) ==
    LET s1 == RecordSpotFill(s, oid, cum)
        new_fill == cum - s1.ao[oid].hedged_qty
    IN  IF new_fill > 0
        THEN [s1 EXCEPT !.ao[oid].hedged_qty = @ + new_fill,
                        !.u = @ + new_fill, !.found = @ + new_fill]
        ELSE s1

\* FillHandler.detect_fills_on_cancel: the state after, the unhedged
\* quantity it returns added to s.u.
DetectFillsOnCancel(s, oid) ==
    LET ws_fills == DrainedFills(s)
        s0 == [s EXCEPT !.q = <<>>]
        filled == Pull(s0, oid)
    IN  IF oid \in DOMAIN ws_fills
        THEN CreditOnCancel(s0, oid, ws_fills[oid])
        ELSE IF filled >= 0
        THEN CreditOnCancel(s0, oid, filled)
        ELSE s0

\* The venue between the pre-cancel check and the cancel taking effect: the
\* order fills by `inflight` more (at most what is left) and is then closed.
VenueCancel(s, oid, inflight) ==
    LET v == s.ven[oid]
        f == IF v.open THEN Min(v.qty, v.filled + inflight) ELSE v.filled
    IN  [s EXCEPT !.ven[oid].filled = f, !.ven[oid].open = FALSE,
                  !.cancelled = @ \cup {oid}]

\* The stream's thread puts the events `late` in the queue while the caller
\* is busy.
Arrive(s, late) == [s EXCEPT !.q = @ \o late]

\* SpotFuturesArbitrageBot._cancel_level_order: detect, cancel, detect
\* again; what it returns is added to s.u.  The events `late` reach the queue
\* between the first detection's drain and the second's.
CancelLevelOrderWith(s, level_idx, inflight, late) ==
    IF level_idx \notin DOMAIN s.l2o THEN s
    ELSE IF s.l2o[level_idx] \notin DOMAIN s.ao THEN s
    ELSE DetectFillsOnCancel(
             Arrive(VenueCancel(DetectFillsOnCancel(s, s.l2o[level_idx]),
                                s.l2o[level_idx], inflight),
                    late),
             s.l2o[level_idx])

\* _cancel_level_order with no event arriving during the call.
CancelLevelOrder(s, level_idx, inflight) ==
    CancelLevelOrderWith(s, level_idx, inflight, << >>)

\* The end of _cancel_all_orders: both maps are cleared.
ClearOrders(s) == [s EXCEPT !.ao = << >>, !.l2o = << >>]

\* SpotFuturesArbitrageBot._cancel_all_orders; inflight maps each level to the
\* quantity that fills while its cancel is on the wire.  The total it returns
\* is the u of the state after.
CancelAllOrders(s, inflight) ==
    ClearOrders(
        CancelLevelOrder(
            CancelLevelOrder(
                CancelLevelOrder([s EXCEPT !.u = 0], 1, inflight[1]),
                2, inflight[2]),
            3, inflight[3]))

\* try_hedge applied to the engine's state.
HedgeS(s, qty, resp) ==
    LET r == TryHedge(s.naked, s.hedged, qty, resp)
    IN  [s |-> [s EXCEPT !.naked = r.naked, !.hedged = r.hedged],
         ok |-> r.ok, hedged_qty |-> r.hedged_qty]

\* `if unhedged > 1e-12: self._try_hedge(unhedged)` on the state c a
\* cancel-all left.
HedgeFound(c, resp) ==
    IF c.u > 0
    THEN [HedgeS(c, c.u, resp).s EXCEPT !.handed = @ + c.u]
    ELSE c

\* A cancel-all whose unhedged quantity is handed to nobody.
CancelAllNoHedge(s, inflight, resp) == CancelAllOrders(s, inflight)

\* `unhedged = self._cancel_all_orders(); if unhedged > 1e-12:
\* self._try_hedge(unhedged)`, as run() and _run_close_task write it.
CancelAllAndHedge(s, inflight, resp) ==
    HedgeFound(CancelAllOrders(s, inflight), resp)


\* A mapping without one key (dict.pop(key, None)).
Without(f, k) == [x \in DOMAIN f \ {k} |-> f[x]]

\* The callback without `self._level_to_oid.pop(order.level_idx, None)`.
OnOrderFullyFilledKeepLevel(s, oid) ==
    [s EXCEPT !.ao = Without(s.ao, oid),
              !.requote = @ \/ s.ao[oid].level_idx = 1]

\* SpotFuturesArbitrageBot._on_order_fully_filled.
OnOrderFullyFilled(s, oid) ==
    LET order == s.ao[oid]
    IN  [s EXCEPT !.l2o = Without(s.l2o, order.level_idx),
                  !.ao = Without(s.ao, oid),
                  !.requote = IF order.level_idx = 1 THEN TRUE ELSE @,
                  !.closed = @ \cup {[oid |-> oid, order |-> order]}]

\* A cleanup that runs the callback for every order marked fully filled,
\* whether its hedge has been credited or not.
RECURSIVE CleanupAllMarked(_, _)
CleanupAllMarked(s, marked) ==
    IF marked = {} THEN s
    ELSE LET oid == CHOOSE o \in marked : TRUE
             s1 == IF oid \in DOMAIN s.ao
                   THEN OnOrderFullyFilled(s, oid)
                   ELSE s
         IN  CleanupAllMarked(s1, marked \ {oid})

\* The cleanup loop of check_fills_and_hedge over the orders marked fully
\* filled: the callback runs for those whose hedge has been credited.
RECURSIVE CleanupFullyFilled(_, _)
CleanupFullyFilled(s, marked) ==
    IF marked = {} THEN s
    ELSE LET oid == CHOOSE o \in marked : TRUE
             s1 == IF oid \in DOMAIN s.ao
                      /\ s.ao[oid].hedged_qty >= s.ao[oid].qty
                   THEN OnOrderFullyFilled(s, oid)
                   ELSE s
         IN  CleanupFullyFilled(s1, marked \ {oid})

\* The allocation without `min(unhedged, remaining_hedge)`: each order takes
\* all the hedge that is left.
AllocateHedgeUncapped(ao, per_order_unhedged, hedged_qty) ==
    [o \in DOMAIN ao |->
        IF o \in DOMAIN per_order_unhedged
        THEN LET before == {x \in DOMAIN per_order_unhedged :
                               ao[x].level_idx < ao[o].level_idx}
                 remaining_hedge ==
                     Max(0, hedged_qty - SumOver(per_order_unhedged, before))
             IN  [ao[o] EXCEPT !.hedged_qty = @ + remaining_hedge]
        ELSE ao[o]]

\* The allocation loop of check_fills_and_hedge: the hedged quantity is handed
\* to the orders in ascending level_idx, each taking min(unhedged, remaining).
AllocateHedge(ao, per_order_unhedged, hedged_qty) ==
    [o \in DOMAIN ao |->
        IF o \in DOMAIN per_order_unhedged
        THEN LET before == {x \in DOMAIN per_order_unhedged :
                               ao[x].level_idx < ao[o].level_idx}
                 remaining_hedge ==
                     Max(0, hedged_qty - SumOver(per_order_unhedged, before))
                 hedged_part == Min(per_order_unhedged[o], remaining_hedge)
             IN  [ao[o] EXCEPT !.hedged_qty = @ + hedged_part]
        ELSE ao[o]]

\* A gap check that adds nothing to naked_exposure and hedges nothing.
GapCheckIdle(s, resp) == s

\* The periodic gap check at the end of check_fills_and_hedge.
GapCheck(s, resp) ==
    LET gap == s.filled - s.hedged - s.naked
    IN  IF gap >= LotSize
        THEN HedgeS([s EXCEPT !.naked = @ + gap], 0, resp).s
        ELSE s

\* The gap check logs its over-hedge warning: `elif gap < -self.cfg.lot_size`.
GapWarns(s) == s.filled - s.hedged - s.naked < -LotSize

\* FillHandler.check_fills_and_hedge.  restDue: the 10 s pull is due; gapDue:
\* the 30 s gap check is due; resp, respGap: the perpetual venue's answers to
\* the batch hedge and to the gap check's hedge.
CheckFillsAndHedge(s, restDue, gapDue, resp, respGap) ==
    IF DOMAIN s.ao = {} THEN s
    ELSE
    LET ws_fills == DrainedFills(s)
        s0 == [s EXCEPT !.q = <<>>]
        pulled == {o \in DOMAIN s0.ao : restDue /\ Pull(s0, o) >= 0}
        order_fills ==
            [o \in DOMAIN ws_fills \cup pulled |->
                IF o \in pulled
                THEN Max(IF o \in DOMAIN ws_fills THEN ws_fills[o] ELSE 0,
                         Pull(s0, o))
                ELSE ws_fills[o]]
        new_fill == [o \in DOMAIN order_fills |->
                        Max(0, order_fills[o] - s0.ao[o].accounted_qty)]
        per_order_unhedged ==
            [o \in {x \in DOMAIN order_fills :
                        order_fills[x] - s0.ao[x].hedged_qty > 0} |->
                order_fills[o] - s0.ao[o].hedged_qty]
        total_new_unhedged ==
            SumOver(per_order_unhedged, DOMAIN per_order_unhedged)
        fully_filled == {o \in DOMAIN order_fills :
                            order_fills[o] >= s0.ao[o].qty}
        s1 == [s0 EXCEPT
                 !.filled = @ + SumOver(new_fill, DOMAIN new_fill),
                 !.ao = [o \in DOMAIN s0.ao |->
                           IF o \in DOMAIN new_fill /\ new_fill[o] > 0
                           THEN [s0.ao[o] EXCEPT
                                    !.accounted_qty = order_fills[o]]
                           ELSE s0.ao[o]]]
        h == HedgeS(s1, total_new_unhedged, resp)
        s2 == IF total_new_unhedged > 0
              THEN [h.s EXCEPT
                      !.ao = AllocateHedge(h.s.ao, per_order_unhedged,
                                           h.hedged_qty)]
              ELSE s1
        s3 == CleanupFullyFilled(s2, fully_filled)
    IN  IF gapDue THEN GapCheck(s3, respGap) ELSE s3


\* ------------------------------------------------------------------ quotes

\* spread < min_spread for spread = (fut_bid - price) / price, price > 0,
\* min_spread = min_spread_bps / 10000.
SpreadBelow(fut_bid, price, min_spread_bps) ==
    (fut_bid - price) * 10000 < min_spread_bps * price

\* SpotFuturesArbitrageBot._remaining_budget.
RemainingBudget(total_budget, total_filled) ==
    Max(0, total_budget - total_filled)

\* The quantity _select_all_levels gives one level: the weighted share of
\* the cycle budget (cycle100 is the cycle budget times 100), capped by the
\* depth ratio, floored to the lot, raised to the notional floor.
LevelQty(cycle100, weight, bid_price, level_qty) ==
    LET capped == Min(cycle100 * weight, level_qty * DepthRatioPct * 100)
        floored == (capped \div (10000 * LotSize)) * LotSize
        min_notional_qty ==
            ((MinNotionalX10 \div (10 * bid_price * LotSize)) + 1) * LotSize
    IN  IF floored < min_notional_qty THEN min_notional_qty ELSE floored

\* The loop with `continue` in place of `return []` on a level below the
\* spread threshold.
RECURSIVE SelectFromSkipping(_, _, _, _, _, _, _)
SelectFromSkipping(level_idx, results, spot_bids, fut_bid, cycle100, min_spread_bps, min_order_qty) ==
    IF level_idx > 3 THEN results
    ELSE IF level_idx > Len(spot_bids) THEN << >>
    ELSE LET bid_price == spot_bids[level_idx].price
             qty == LevelQty(cycle100, LevelWeights[level_idx], bid_price,
                             spot_bids[level_idx].size)
         IN  IF bid_price <= 0 THEN << >>
             ELSE IF SpreadBelow(fut_bid, bid_price, min_spread_bps)
             THEN SelectFromSkipping(level_idx + 1, results, spot_bids,
                     fut_bid, cycle100, min_spread_bps, min_order_qty)
             ELSE IF qty < min_order_qty THEN << >>
             ELSE SelectFromSkipping(level_idx + 1,
                     Append(results, [level_idx |-> level_idx,
                                      price |-> bid_price, qty |-> qty]),
                     spot_bids, fut_bid, cycle100, min_spread_bps,
                     min_order_qty)

\* The loop of _select_all_levels from level_idx on: a level that is
\* missing, has no valid price, is below the spread threshold or below the
\* minimum quantity returns the empty list.
RECURSIVE SelectFrom(_, _, _, _, _, _, _)
SelectFrom(level_idx, results, spot_bids, fut_bid, cycle100, min_spread_bps, min_order_qty) ==
    IF level_idx > 3 THEN results
    ELSE IF level_idx > Len(spot_bids) THEN << >>
    ELSE LET bid_price == spot_bids[level_idx].price
             qty == LevelQty(cycle100, LevelWeights[level_idx], bid_price,
                             spot_bids[level_idx].size)
         IN  IF bid_price <= 0 THEN << >>
             ELSE IF SpreadBelow(fut_bid, bid_price, min_spread_bps)
             THEN << >>
             ELSE IF qty < min_order_qty THEN << >>
             ELSE SelectFrom(level_idx + 1,
                     Append(results, [level_idx |-> level_idx,
                                      price |-> bid_price, qty |-> qty]),
                     spot_bids, fut_bid, cycle100, min_spread_bps,
                     min_order_qty)

\* SpotFuturesArbitrageBot._select_all_levels.
SelectAllLevels(spot_bids, fut_bid, total_budget, total_filled, min_spread_bps, min_order_qty) ==
    LET remaining == RemainingBudget(total_budget, total_filled)
        cycle100 == Min(total_budget * BudgetPct, remaining * 100)
    IN  IF fut_bid <= 0 THEN << >>
        ELSE IF remaining <= 0 THEN << >>
        ELSE SelectFrom(1, << >>, spot_bids, fut_bid, cycle100,
                        min_spread_bps, min_order_qty)

\* SpotFuturesArbitrageBot._orders_drifted.
OrdersDrifted(s, spot_bids) ==
    /\ DOMAIN s.ao # {}
    /\ Len(spot_bids) >= 5
    /\ \E o \in DOMAIN s.ao : s.ao[o].price < spot_bids[5].price

\* SpotFuturesArbitrageBot._orders_below_min_spread.
OrdersBelowMinSpread(s, fut_bid) ==
    /\ fut_bid > 0
    /\ \E o \in DOMAIN s.ao : SpreadBelow(fut_bid, s.ao[o].price, MinSpreadBps)

\* A reprice test that asks for a reprice of every level.
NeedRepriceAlways(s, level_idx, new_price, new_qty) == TRUE

\* SpotFuturesArbitrageBot._need_reprice_level.
NeedRepriceLevel(s, level_idx, new_price, new_qty) ==
    IF level_idx \notin DOMAIN s.l2o THEN TRUE
    ELSE IF s.l2o[level_idx] \notin DOMAIN s.ao THEN TRUE
    ELSE LET order == s.ao[s.l2o[level_idx]]
             d == Abs(new_price - order.price)
             price_changed ==
                 /\ d * 100000 >= order.price * RepriceBpsX10
                 /\ d >= TickSize * RepriceTicks
             qty_changed == 2 * Abs(new_qty - order.qty) >= LotSize
         IN  price_changed \/ qty_changed

\* An id nothing refers to any more: not tracked, not open at the venue, in no
\* queued event.
Forgotten(s, o) ==
    /\ o \notin DOMAIN s.ao
    /\ ~s.ven[o].open
    /\ \A i \in DOMAIN s.q : s.q[i].order_id # o

\* The id the venue gives the next order: ids are opaque and unique among
\* the orders anything still refers to; the level's own number is used when
\* nothing refers to it, else the smallest forgotten id.
FreshOid(s, level_idx) ==
    IF Forgotten(s, level_idx) THEN level_idx
    ELSE CHOOSE o \in OIDs :
            /\ Forgotten(s, o)
            /\ \A x \in OIDs : Forgotten(s, x) => o <= x

\* SpotFuturesArbitrageBot._place_level_order; accepted = FALSE is the venue
\* refusing the order (the method catches the exception and returns None).
PlaceLevelOrder(s, level_idx, price, qty, accepted) ==
    IF ~accepted THEN s
    ELSE LET oid == FreshOid(s, level_idx)
         IN  [s EXCEPT
                !.ao = (oid :> [level_idx |-> level_idx, price |-> price,
                                qty |-> qty, accounted_qty |-> 0,
                                hedged_qty |-> 0]) @@ s.ao,
                !.l2o = (level_idx :> oid) @@ s.l2o,
                !.ven[oid] = [qty |-> qty, filled |-> 0, open |-> TRUE],
                !.placed = @ \cup {oid},
                !.nakedPlace = @ \/ s.naked >= LotSize]


\* The desired quote of a level (desired_map[lv]).
DesiredOf(desired, lv) ==
    desired[CHOOSE i \in DOMAIN desired : desired[i].level_idx = lv]

\* Step 2 of _sync_orders, the bookkeeping after a level's cancel: the level
\* and its order are forgotten and the level is queued for placement.  c is
\* the state the cancel left.
ForgetLevel(r, c, lv) ==
    [r EXCEPT !.s = [c EXCEPT !.l2o = Without(c.l2o, lv),
                              !.ao = Without(c.ao, c.l2o[lv])],
              !.to_add = @ \cup {lv}]

\* Step 2 of _sync_orders for one level of to_check: cancel and forget the
\* order when it needs a reprice.  r carries the state (its u is
\* total_unhedged), to_check and to_add.
SyncCheckLevel(r, desired, lv, inflight) ==
    IF lv \notin r.to_check THEN r
    ELSE IF ~NeedRepriceLevel(r.s, lv, DesiredOf(desired, lv).price,
                              DesiredOf(desired, lv).qty)
    THEN r
    ELSE ForgetLevel(r, CancelLevelOrder(r.s, lv, inflight[lv]), lv)

\* Step 5 of _sync_orders for one level, in ascending order.
SyncPlaceLevel(s, desired, to_add, lv, failLv) ==
    IF lv \notin to_add THEN s
    ELSE PlaceLevelOrder(s, lv, DesiredOf(desired, lv).price,
                         DesiredOf(desired, lv).qty, lv # failLv)

\* Step 5 of _sync_orders with step 4, the naked-exposure check, left out.
SyncPlaceUnguarded(s, desired, to_add, inflight, failLv) ==
    [s |-> SyncPlaceLevel(
               SyncPlaceLevel(
                   SyncPlaceLevel(s, desired, to_add, 1, failLv),
                   desired, to_add, 2, failLv),
               desired, to_add, 3, failLv),
     ok |-> TRUE]

\* Steps 4 and 5 of _sync_orders: with naked exposure of a lot or more cancel
\* all and return False, else place the levels of to_add.  failLv is the
\* level whose placement the venue refuses (0: none).
SyncPlace(s, desired, to_add, inflight, failLv) ==
    IF s.naked >= LotSize
    THEN [s |-> CancelAllOrders(s, inflight), ok |-> FALSE]
    ELSE [s |-> SyncPlaceLevel(
                    SyncPlaceLevel(
                        SyncPlaceLevel(s, desired, to_add, 1, failLv),
                        desired, to_add, 2, failLv),
                    desired, to_add, 3, failLv),
          ok |-> TRUE]

\* Steps 3 to 5 of _sync_orders on the record r the checks of step 2 left:
\* hedge what the cancels found; if that fails cancel all, hedge what that
\* finds and return False.  resp answers the hedge of step 3, resp2 the hedge
\* after the full cancel.
SyncHedgeAndPlace(r, desired, inflight, resp, resp2, failLv) ==
    LET h == HedgeS(r.s, r.s.u, resp)
        s3 == [h.s EXCEPT !.handed = @ + r.s.u]
    IN  IF r.s.u > 0 /\ ~h.ok
        THEN [s |-> CancelAllAndHedge(s3, inflight, resp2), ok |-> FALSE]
        ELSE SyncPlace(IF r.s.u > 0 THEN s3 ELSE r.s, desired, r.to_add,
                       inflight, failLv)

\* SpotFuturesArbitrageBot._sync_orders for a non-empty desired ladder:
\* the state after and the value returned.
SyncOrders(s, desired, inflight, resp, resp2, failLv) ==
    LET desired_levels == {desired[i].level_idx : i \in DOMAIN desired}
        current_levels == DOMAIN s.l2o
        r0 == [s |-> [s EXCEPT !.u = 0],
               to_add |-> desired_levels \ current_levels,
               to_check |-> current_levels \cap desired_levels]
    IN  SyncHedgeAndPlace(
            SyncCheckLevel(
                SyncCheckLevel(
                    SyncCheckLevel(r0, desired, 1, inflight),
                    desired, 2, inflight),
                desired, 3, inflight),
            desired, inflight, resp, resp2, failLv)


\* ------------------------------------------------------------------ market

Book(prices) == [i \in DOMAIN prices |-> [price |-> prices[i], size |-> 20]]

\* The market snapshots a tick may read: a quotable book, a book whose best
\* bid moved, a book that walked above the ladder, a collapsed perpetual bid,
\* no data, and a book with too few levels.
Markets ==
    { [bids |-> Book(<<10, 9, 8, 7, 6>>), fut |-> 15],
      [bids |-> Book(<<13, 9, 8, 7, 6>>), fut |-> 15],
      [bids |-> Book(<<13, 12, 11, 10, 9>>), fut |-> 12],
      [bids |-> Book(<<10, 9, 8, 7, 6>>), fut |-> 9],
      [bids |-> << >>, fut |-> 15] }

\* ------------------------------------------------------------------ engine

NoOrder == [qty |-> 0, filled |-> 0, open |-> FALSE]
NoInflight == [l \in Levels |-> 0]

\* The perpetual venue's answers to a hedge explored by the Coordinator's
\* specification: it accepts, or rejects every attempt (try_hedge treats
\* every exception alike).
SpecScripts == {AllOk, AllErr}

\* Its answers to a recovery, which tells a notional rejection apart.
RecoverScripts == {AllOk, AllErr, AllSmall}

\* What the history variable holds after an event that is no tick step.
NoTick == [step |-> "env", placed |-> {}, cancelled |-> {},
           reqPending |-> FALSE, reqReset |-> FALSE, l1done |-> FALSE,
           nakedPlace |-> FALSE, found |-> 0, handed |-> 0,
           drift |-> FALSE, fut |-> 0, bid5 |-> 0, desired |-> << >>,
           failed |-> {}]

\* The engine's and the venue's state as one record.
St == [ao |-> active_orders, l2o |-> level_to_oid, naked |-> naked_exposure,
       filled |-> total_filled_base, hedged |-> total_hedged_base,
       requote |-> requote_all_levels, q |-> fill_queue, ven |-> venue,
       placed |-> {}, cancelled |-> {}, nakedPlace |-> FALSE, u |-> 0,
       found |-> 0, handed |-> 0, closed |-> {}]

\* The venue drops the closed orders the engine no longer tracks.
Purge(s) ==
    [o \in OIDs |-> IF o \notin DOMAIN s.ao /\ ~s.ven[o].open
                    THEN NoOrder ELSE s.ven[o]]

\* The state record written back, with the Coordinator's next position and the
\* history of the step.
Commit(s, next_pc, h) ==
    /\ active_orders' = s.ao
    /\ level_to_oid' = s.l2o
    /\ naked_exposure' = s.naked
    /\ total_filled_base' = s.filled
    /\ total_hedged_base' = s.hedged
    /\ requote_all_levels' = s.requote
    /\ fill_queue' = s.q
    /\ venue' = Purge(s)
    /\ pc' = next_pc
    /\ last' = [step |-> h.step, placed |-> s.placed,
                cancelled |-> s.cancelled,
                reqPending |-> h.reqPending, reqReset |-> h.reqReset,
                l1done |-> h.l1done, nakedPlace |-> s.nakedPlace,
                found |-> s.found, handed |-> s.handed,
                drift |-> h.drift, fut |-> h.fut, bid5 |-> h.bid5,
                desired |-> h.desired]
    /\ UNCHANGED <<paused, hres, sel,
                   running, close_task, hedge_threads>>

Hist(step) == [NoTick EXCEPT !.step = step]

\* The history of a step that read the market m.
MarketHist(step, m) ==
    [NoTick EXCEPT !.step = step, !.reqPending = requote_all_levels,
                   !.fut = m.fut,
                   !.bid5 = IF Len(m.bids) >= 5 THEN m.bids[5].price ELSE 0]

\* The history of a step that went through the drift and requote branches of
\* run() and selected desired.
QuoteHist(step, m, desired) ==
    [MarketHist(step, m) EXCEPT !.reqReset = requote_all_levels,
                                !.drift = OrdersDrifted(St, m.bids),
                                !.desired = desired]

\* The in-flight fills explored: none, or one live order fills by some
\* quantity while its cancel is on the wire.
Inflights(s) ==
    {NoInflight} \cup
    UNION { { [l \in Levels |-> IF l = lv THEN a ELSE 0] :
                a \in 1..(s.ven[s.l2o[lv]].qty - s.ven[s.l2o[lv]].filled) } :
            lv \in {x \in DOMAIN s.l2o : s.ven[s.l2o[x]].open} }

\* hres and sel before any call.
NoCall == [called |-> FALSE, qty |-> 0, naked_before |-> 0,
           hedged_before |-> 0, resp |-> AllOk, ok |-> TRUE,
           hedged_qty |-> 0, submits |-> 0]
NoSelection == [called |-> FALSE, bids |-> << >>, fut |-> 0,
                total_budget |-> 0, total_filled |-> 0, min_order_qty |-> 0,
                result |-> << >>]

\* No close task has run: the flag is clear, no thread lives, nothing is
\* pending.  running = _close_task_running, status = _close_task_status
\* ["running"], close_pending = _close_pending_hedge, threads = the live
\* close-task threads, start and asked = what a start_close_task just
\* returned and the quantity it was asked, ended = how the last thread
\* ended, runs = the threads started so far; the rest are the thread's
\* locals, its position (phase), the book the last round read and the orders
\* it placed, and whether the last step bought perpetuals.
NoCloseTask ==
    [running |-> FALSE, status |-> FALSE, close_pending |-> 0, threads |-> 0,
     start |-> "none", asked |-> 0, ended |-> "none", runs |-> 0,
     phase |-> "idle",
     round |-> 0,
     target_qty |-> 0, sold |-> 0, perp_bought |-> 0, pending_hedge |-> 0,
     carried |-> 0, open_orders |-> << >>, asks |-> << >>, fut_ask |-> 0,
     placed |-> {}, bought |-> FALSE, left_open |-> << >>]

\* The threads that write naked_exposure: run() and the close task.
Threads == {"main", "close"}

\* A thread outside try_hedge and try_recover_naked_exposure.
NoHedgeCall == [kind |-> "none", qty |-> 0, naked |-> 0, resp |-> AllOk]

\* No thread is inside try_hedge: the hedge lock is free and no operation on
\* the counters has begun.
NoHedgeThreads ==
    [lock |-> "free", call |-> [t \in Threads |-> NoHedgeCall], ops |-> << >>]

\* The ledger counters are explored up to MaxLedger.
WithinLedger ==
    /\ total_hedged_base <= MaxLedger
    /\ naked_exposure <= MaxLedger

InitEngine ==
    /\ active_orders = << >>
    /\ level_to_oid = << >>
    /\ naked_exposure = 0
    /\ total_filled_base = 0
    /\ total_hedged_base = 0
    /\ paused = FALSE
    /\ requote_all_levels = FALSE
    /\ fill_queue = << >>
    /\ venue = [o \in OIDs |-> NoOrder]
    /\ pc = "top"
    /\ last = NoTick
    /\ hres = NoCall
    /\ sel = NoSelection
    /\ running = TRUE
    /\ close_task = NoCloseTask
    /\ hedge_threads = NoHedgeThreads


\* ------------------------------------------------------------------ run()

\* A paused branch that only sleeps.
TickPausedIdle ==
    /\ pc = "top" /\ paused /\ WithinLedger
    /\ Commit(St, "top",
              [Hist("paused") EXCEPT !.reqPending = requote_all_levels])

\* run(), the paused branch: cancel all, hedge what the cancel found, sleep.
TickPaused ==
    /\ pc = "top" /\ running /\ paused /\ WithinLedger
    /\ IF DOMAIN active_orders # {}
       THEN \E inflight \in Inflights(St), resp \in SpecScripts :
               Commit(CancelAllAndHedge(St, inflight, resp), "top",
                      [Hist("paused") EXCEPT
                         !.reqPending = requote_all_levels])
       ELSE Commit(St, "top",
                   [Hist("paused") EXCEPT !.reqPending = requote_all_levels])

\* What one call of check_fills_and_hedge reads from its environment: nothing
\* when there is no active order (it returns at once), else whether the 10 s
\* pull and the 30 s gap check are due and the perpetual venue's answers,
\* the gap hedge's answer being read only when the gap check is due.
ReconcileInputs(s) ==
    IF DOMAIN s.ao = {}
    THEN { [restDue |-> FALSE, gapDue |-> FALSE,
            resp |-> AllOk, respGap |-> AllOk] }
    ELSE { x \in [restDue : BOOLEAN, gapDue : BOOLEAN,
                  resp : SpecScripts, respGap : SpecScripts] :
              ~x.gapDue => x.respGap = AllOk }

\* run(), first reconciliation of a tick (self._check_fills_and_hedge()).
TickReconcile ==
    /\ pc = "top" /\ running /\ ~paused /\ WithinLedger
    /\ \E x \in ReconcileInputs(St) :
          \E s1 \in {CheckFillsAndHedge(St, x.restDue, x.gapDue,
                                        x.resp, x.respGap)} :
              Commit(s1, "recover",
                     [Hist("reconciled") EXCEPT
                        !.l1done = 1 \in DOMAIN level_to_oid
                                   /\ 1 \notin DOMAIN s1.l2o])

\* run(), recovery of naked exposure; on failure the protective branch
\* cancels all, hedges what the cancel found and ends the tick.
TickRecover ==
    /\ pc = "recover"
    /\ IF naked_exposure > 0
       THEN \E resp \in RecoverScripts :
               LET r == TryRecover(naked_exposure, total_hedged_base, resp)
                   s1 == [St EXCEPT !.naked = r.naked, !.hedged = r.hedged]
               IN  IF r.ok
                   THEN Commit(s1, "quote", Hist("recovered"))
                   ELSE IF DOMAIN active_orders # {}
                   THEN \E inflight \in Inflights(St),
                           resp2 \in SpecScripts :
                           Commit(CancelAllAndHedge(s1, inflight, resp2),
                                  "top",
                                  [Hist("protect") EXCEPT
                                     !.reqPending = requote_all_levels])
                   ELSE Commit(s1, "top",
                               [Hist("protect") EXCEPT
                                  !.reqPending = requote_all_levels])
       ELSE Commit(St, "quote", Hist("recovered"))

\* A drift branch that leaves the ladder alone.
DriftStepIdle(s, m, inflight, resp) == s

\* The drift branch of run(): cancel all and hedge, then go on.
DriftStep(s, m, inflight, resp) ==
    IF OrdersDrifted(s, m.bids) THEN CancelAllAndHedge(s, inflight, resp)
    ELSE s

\* A requote branch that resets the flag and cancels nothing.
RequoteStepResetOnly(s, inflight, resp) ==
    IF s.requote THEN [s EXCEPT !.requote = FALSE] ELSE s

\* The requote branch of run(): reset the flag, cancel all and hedge.
RequoteStep(s, inflight, resp) ==
    IF s.requote
    THEN CancelAllAndHedge([s EXCEPT !.requote = FALSE], inflight, resp)
    ELSE s

\* `if not desired:` in run() with a full cancel in place of keeping the
\* ladder.
CancelOnEmpty(s, inflight, resp) == CancelAllAndHedge(s, inflight, resp)

\* `if not desired:` in run(): the existing orders are kept, the tick sleeps.
KeepOnEmpty(s, inflight, resp) == s

\* run() from the market read to the end of _sync_orders, the market being
\* one of markets.
TickQuoteIn(markets) ==
    /\ pc = "quote"
    /\ \E m \in markets :
          IF m.bids = << >>
          THEN Commit(St, "top", MarketHist("nodata", m))
          ELSE \E inflight \in Inflights(St), resp \in SpecScripts :
          IF DOMAIN active_orders # {} /\ OrdersBelowMinSpread(St, m.fut)
          THEN Commit(CancelAllAndHedge(St, inflight, resp), "top",
                      MarketHist("guard", m))
          ELSE \E s2 \in {RequoteStep(DriftStep(St, m, inflight, resp),
                                      inflight, resp)} :
               \E desired \in {SelectAllLevels(m.bids, m.fut, TotalBudget,
                                  s2.filled, MinSpreadBps, MinOrderQty)} :
                  IF desired = << >>
                  THEN Commit(KeepOnEmpty(s2, inflight, resp), "top",
                              QuoteHist("noquote", m, desired))
                  ELSE \E resp2 \in SpecScripts, failLv \in 0..3 :
                       \E y \in {SyncOrders(s2, desired, inflight, resp,
                                            resp2, failLv)} :
                          IF ~y.ok
                          THEN Commit(y.s, "top",
                                      QuoteHist("syncfail", m, desired))
                          ELSE Commit(y.s, "post",
                                      QuoteHist("synced", m, desired))

\* run() from the market read to the end of _sync_orders.
TickQuote == TickQuoteIn(Markets)

\* run(), second reconciliation of a tick, after _sync_orders succeeded.
TickPost ==
    /\ pc = "post"
    /\ \E x \in ReconcileInputs(St) :
          \E s1 \in {CheckFillsAndHedge(St, x.restDue, x.gapDue,
                                        x.resp, x.respGap)} :
              Commit(s1, "top",
                     [Hist("post") EXCEPT
                        !.l1done = 1 \in DOMAIN level_to_oid
                                   /\ 1 \notin DOMAIN s1.l2o])

\* ------------------------------------------------------------------ world

\* The quantities by which the venue may fill an order that has rest left:
\* any part of it down to level MaxPartialLevel, all of it deeper.
FillSteps(level_idx, rest) ==
    IF level_idx <= MaxPartialLevel THEN 1..rest ELSE {rest}

\* The spot venue fills a resting buy order by a; the user-data stream
\* pushes the cumulative quantity, or the event is lost.
VenueFill ==
    /\ pc \in {"top", "post"}
    /\ \E o \in OIDs, delivered \in BOOLEAN :
          /\ venue[o].open
          /\ o \in DOMAIN active_orders
          /\ active_orders[o].level_idx <= MaxFillLevel
          /\ \E a \in FillSteps(active_orders[o].level_idx,
                                venue[o].qty - venue[o].filled) :
                LET f == venue[o].filled + a
                IN  /\ venue' = [venue EXCEPT ![o].filled = f,
                                              ![o].open = f < venue[o].qty]
                    /\ IF delivered
                       THEN /\ Len(fill_queue) < MaxQueue
                            /\ fill_queue' = Append(fill_queue,
                                  [order_id |-> o, filled_qty |-> f])
                       ELSE fill_queue' = fill_queue
    /\ last' = NoTick
    /\ UNCHANGED <<active_orders, level_to_oid, naked_exposure,
                   total_filled_base, total_hedged_base, paused,
                   requote_all_levels, pc, hres, sel,
                   running, close_task, hedge_threads>>

\* SpotFuturesArbitrageBot.pause, called from the control thread.
Pause ==
    /\ pc = "top"
    /\ ~paused
    /\ paused' = TRUE
    /\ last' = NoTick
    /\ UNCHANGED <<active_orders, level_to_oid, naked_exposure,
                   total_filled_base, total_hedged_base, requote_all_levels,
                   fill_queue, venue, pc, hres, sel,
                   running, close_task, hedge_threads>>

\* SpotFuturesArbitrageBot.resume.
Resume ==
    /\ pc = "top"
    /\ paused
    /\ paused' = FALSE
    /\ last' = NoTick
    /\ UNCHANGED <<active_orders, level_to_oid, naked_exposure,
                   total_filled_base, total_hedged_base, requote_all_levels,
                   fill_queue, venue, pc, hres, sel,
                   running, close_task, hedge_threads>>

Next ==
    \/ TickPaused
    \/ TickReconcile
    \/ TickRecover
    \/ TickQuote
    \/ TickPost
    \/ VenueFill
    \/ Pause
    \/ Resume

Spec == InitEngine /\ [][Next]_vars

\* ------------------------------------------------------------------ a rising book

\* The market snapshots of a book that walks up: the quotable book, the book
\* five ticks higher with the perpetual bid following, and the same book with
\* the perpetual bid left behind.
DriftMarkets ==
    { [bids |-> Book(<<10, 9, 8, 7, 6>>), fut |-> 15],
      [bids |-> Book(<<13, 12, 11, 10, 9>>), fut |-> 18],
      [bids |-> Book(<<13, 12, 11, 10, 9>>), fut |-> 12] }

\* run() from the market read to the end of _sync_orders on a rising book.
TickQuoteDrift == TickQuoteIn(DriftMarkets)

NextDrift ==
    \/ TickReconcile
    \/ TickRecover
    \/ TickQuoteDrift
    \/ TickPost
    \/ VenueFill

SpecDrift == InitEngine /\ [][NextDrift]_vars

\* ------------------------------------------------------------------ _sync_orders twice

\* The markets whose selection is a full ladder.
SyncMarkets ==
    { [bids |-> Book(<<10, 9, 8, 7, 6>>), fut |-> 15],
      [bids |-> Book(<<13, 9, 8, 7, 6>>), fut |-> 15] }

\* _sync_orders(desired) for the ladder selected on one of SyncMarkets.
SyncFirst ==
    /\ pc = "top" /\ WithinLedger
    /\ \E m \in SyncMarkets, inflight \in Inflights(St),
          resp \in SpecScripts, resp2 \in SpecScripts, failLv \in 0..3 :
          \E desired \in {SelectAllLevels(m.bids, m.fut, TotalBudget,
                             total_filled_base, MinSpreadBps, MinOrderQty)} :
             /\ desired # << >>
             /\ \E y \in {SyncOrders(St, desired, inflight, resp, resp2,
                                     failLv)} :
                   Commit(y.s, "again",
                          QuoteHist(IF y.ok THEN "synced" ELSE "syncfail",
                                    m, desired))

\* _sync_orders(desired) once more with the same desired, nothing having
\* filled in between.
SyncAgain ==
    /\ pc = "again"
    /\ \E failLv \in 0..3 :
          Commit(SyncOrders(St, last.desired, NoInflight, AllOk, AllOk,
                            failLv).s,
                 "top",
                 [Hist(IF last.step = "synced" THEN "again" ELSE "retry")
                    EXCEPT !.desired = last.desired])

NextSync == SyncFirst \/ SyncAgain \/ VenueFill

SpecSync == InitEngine /\ [][NextSync]_vars

\* ------------------------------------------------------------------ try_hedge alone

\* The engine at rest with some naked exposure carried.
InitHedge ==
    /\ active_orders = << >>
    /\ level_to_oid = << >>
    /\ naked_exposure \in 0..MaxHedgeArg
    /\ total_filled_base = 0
    /\ total_hedged_base = 0
    /\ paused = FALSE
    /\ requote_all_levels = FALSE
    /\ fill_queue = << >>
    /\ venue = [o \in OIDs |-> NoOrder]
    /\ pc = "top"
    /\ last = NoTick
    /\ hres = NoCall
    /\ sel = NoSelection
    /\ running = TRUE
    /\ close_task = NoCloseTask
    /\ hedge_threads = NoHedgeThreads

\* One call try_hedge(qty) with the perpetual venue answering resp.
HedgeCall ==
    /\ ~hres.called
    /\ \E qty \in 0..MaxHedgeArg, resp \in Scripts :
          LET r == TryHedge(naked_exposure, total_hedged_base, qty, resp)
          IN  /\ naked_exposure' = r.naked
              /\ total_hedged_base' = r.hedged
              /\ hres' = [called |-> TRUE, qty |-> qty,
                          naked_before |-> naked_exposure,
                          hedged_before |-> total_hedged_base,
                          resp |-> resp,
                          ok |-> r.ok, hedged_qty |-> r.hedged_qty,
                          submits |-> r.submits]
    /\ UNCHANGED <<active_orders, level_to_oid, total_filled_base, paused,
                   requote_all_levels, fill_queue, venue, pc, last, sel,
                   running, close_task, hedge_threads>>

SpecHedge == InitHedge /\ [][HedgeCall]_vars

\* One call try_recover_naked_exposure() with the perpetual venue answering
\* resp.
RecoverCall ==
    /\ ~hres.called
    /\ \E resp \in Scripts :
          LET r == TryRecover(naked_exposure, total_hedged_base, resp)
          IN  /\ naked_exposure' = r.naked
              /\ total_hedged_base' = r.hedged
              /\ hres' = [called |-> TRUE, qty |-> 0,
                          naked_before |-> naked_exposure,
                          hedged_before |-> total_hedged_base,
                          resp |-> resp,
                          ok |-> r.ok, hedged_qty |-> 0,
                          submits |-> r.submits]
    /\ UNCHANGED <<active_orders, level_to_oid, total_filled_base, paused,
                   requote_all_levels, fill_queue, venue, pc, last, sel,
                   running, close_task, hedge_threads>>

SpecRecover == InitHedge /\ [][RecoverCall]_vars

\* ------------------------------------------------------------------ the gap check alone

\* The three counters of the ledger, in any relation to one another.
InitGap ==
    /\ active_orders = << >>
    /\ level_to_oid = << >>
    /\ naked_exposure \in 0..MaxLedger
    /\ total_filled_base \in 0..MaxLedger
    /\ total_hedged_base \in 0..MaxLedger
    /\ paused = FALSE
    /\ requote_all_levels = FALSE
    /\ fill_queue = << >>
    /\ venue = [o \in OIDs |-> NoOrder]
    /\ pc = "top"
    /\ last = NoTick
    /\ hres = NoCall
    /\ sel = NoSelection
    /\ running = TRUE
    /\ close_task = NoCloseTask
    /\ hedge_threads = NoHedgeThreads

\* The gap check of check_fills_and_hedge, run once when it is due, the
\* perpetual venue answering resp to the hedge it may attempt.  hres keeps
\* the counters before, whether the warning was logged and the market sells
\* submitted.
GapCall ==
    /\ ~hres.called
    /\ \E resp \in Scripts :
       \E s \in {GapCheck(St, resp)} :
          /\ naked_exposure' = s.naked
          /\ total_hedged_base' = s.hedged
          /\ total_filled_base' = s.filled
          /\ hres' = [called |-> TRUE, qty |-> 0,
                      naked_before |-> naked_exposure,
                      hedged_before |-> total_hedged_base,
                      filled_before |-> total_filled_base,
                      resp |-> resp,
                      warned |-> GapWarns(St),
                      submits |->
                         IF total_filled_base - total_hedged_base
                              - naked_exposure >= LotSize
                         THEN TryHedge(total_filled_base - total_hedged_base,
                                       total_hedged_base, 0, resp).submits
                         ELSE 0]
    /\ UNCHANGED <<active_orders, level_to_oid, paused, requote_all_levels,
                   fill_queue, venue, pc, last, sel, running, close_task,
                   hedge_threads>>

SpecGap == InitGap /\ [][GapCall]_vars

\* ------------------------------------------------------------------ the hedger's carry

\* check_fills_and_hedge for one new fill of a: the fill is added to
\* total_filled_base and handed to try_hedge.
CarryFill ==
    /\ \E a \in 1..(LotSize + 1), resp \in RecoverScripts :
          /\ total_filled_base + a <= MaxCarry
          /\ LET r == TryHedge(naked_exposure, total_hedged_base, a, resp)
             IN  /\ naked_exposure' = r.naked
                 /\ total_hedged_base' = r.hedged
                 /\ total_filled_base' = total_filled_base + a
                 /\ hres' = [called |-> TRUE, qty |-> a,
                             naked_before |-> naked_exposure,
                             hedged_before |-> total_hedged_base,
                             resp |-> resp,
                             ok |-> r.ok, hedged_qty |-> r.hedged_qty,
                             submits |-> r.submits]
    /\ last' = Hist("hedge")
    /\ UNCHANGED <<active_orders, level_to_oid, paused, requote_all_levels,
                   fill_queue, venue, pc, sel,
                   running, close_task, hedge_threads>>

\* run(): `if self.naked_exposure > 0: self._try_recover_naked_exposure()`.
CarryRecover ==
    /\ naked_exposure > 0
    /\ \E resp \in RecoverScripts :
          LET r == TryRecover(naked_exposure, total_hedged_base, resp)
          IN  /\ naked_exposure' = r.naked
              /\ total_hedged_base' = r.hedged
              /\ hres' = [called |-> TRUE, qty |-> 0,
                          naked_before |-> naked_exposure,
                          hedged_before |-> total_hedged_base,
                          resp |-> resp,
                          ok |-> r.ok, hedged_qty |-> 0,
                          submits |-> r.submits]
    /\ last' = Hist("recover")
    /\ UNCHANGED <<active_orders, level_to_oid, total_filled_base, paused,
                   requote_all_levels, fill_queue, venue, pc, sel,
                   running, close_task, hedge_threads>>

NextCarry == CarryFill \/ CarryRecover

SpecCarry == InitEngine /\ [][NextCarry]_vars

\* ------------------------------------------------------------------ _select_all_levels alone

\* The books drawn: up to four levels, prices 0..MaxSelPrice, a level size
\* that binds the depth cap or not.
SelPrices == 0..MaxSelPrice
SelBooks ==
    { Book(<<a, b>>) : a \in SelPrices, b \in SelPrices }
    \cup { [i \in 1..3 |-> [price |-> p[i], size |-> z]] :
              p \in [1..3 -> SelPrices], z \in {10, 40} }

\* One call of _select_all_levels on a drawn book, perpetual bid, budget,
\* filled total and minimum order quantity.
SelectCall ==
    /\ ~sel.called
    /\ \E bids \in SelBooks, fut \in 0..MaxSelPrice,
          budget \in {TotalBudget, 2000},
          filled \in {0, TotalBudget}, moq \in {MinOrderQty, 3 * LotSize} :
          sel' = [called |-> TRUE, bids |-> bids, fut |-> fut,
                  total_budget |-> budget, total_filled |-> filled,
                  min_order_qty |-> moq,
                  result |-> SelectAllLevels(bids, fut, budget, filled,
                                             MinSpreadBps, moq)]
    /\ UNCHANGED <<active_orders, level_to_oid, naked_exposure,
                   total_filled_base, total_hedged_base, paused,
                   requote_all_levels, fill_queue, venue, pc, last, hres,
                   running, close_task, hedge_threads>>

SpecSelect == InitEngine /\ [][SelectCall]_vars

\* ------------------------------------------------------------------ one order's fills

\* One level-1 order of one to MaxRoundLots lots rests at the venue, tracked
\* by the engine; nothing is filled yet.
InitRound ==
    /\ \E n \in 1..MaxRoundLots :
          /\ active_orders = (1 :> [level_idx |-> 1, price |-> 10,
                                    qty |-> n * LotSize, accounted_qty |-> 0,
                                    hedged_qty |-> 0])
          /\ venue = [o \in OIDs |->
                        IF o = 1 THEN [qty |-> n * LotSize, filled |-> 0,
                                       open |-> TRUE]
                        ELSE NoOrder]
    /\ level_to_oid = (1 :> 1)
    /\ naked_exposure = 0
    /\ total_filled_base = 0
    /\ total_hedged_base = 0
    /\ paused = FALSE
    /\ requote_all_levels = FALSE
    /\ fill_queue = << >>
    /\ pc = "top"
    /\ last = NoTick
    /\ hres = NoCall
    /\ sel = NoSelection
    /\ running = TRUE
    /\ close_task = NoCloseTask
    /\ hedge_threads = NoHedgeThreads

\* The venue fills the order by a and the stream delivers the cumulative
\* quantity.
RoundFill ==
    /\ venue[1].open
    /\ Len(fill_queue) < MaxQueue
    /\ \E a \in 1..(venue[1].qty - venue[1].filled) :
          LET f == venue[1].filled + a
          IN  /\ venue' = [venue EXCEPT ![1].filled = f,
                                        ![1].open = f < venue[1].qty]
              /\ fill_queue' = Append(fill_queue,
                                      [order_id |-> 1, filled_qty |-> f])
    /\ last' = NoTick
    /\ UNCHANGED <<active_orders, level_to_oid, naked_exposure,
                   total_filled_base, total_hedged_base, paused,
                   requote_all_levels, pc, hres, sel,
                   running, close_task, hedge_threads>>

\* check_fills_and_hedge on the queued events, every hedge accepted; no
\* pull and no gap check are due.
RoundReconcile ==
    /\ fill_queue # << >>
    /\ LET s == CheckFillsAndHedge(St, FALSE, FALSE, AllOk, AllOk)
       IN  /\ active_orders' = s.ao
           /\ level_to_oid' = s.l2o
           /\ naked_exposure' = s.naked
           /\ total_filled_base' = s.filled
           /\ total_hedged_base' = s.hedged
           /\ requote_all_levels' = s.requote
           /\ fill_queue' = s.q
           /\ venue' = s.ven
    /\ last' = Hist("reconciled")
    /\ UNCHANGED <<paused, pc, hres, sel,
                   running, close_task, hedge_threads>>

NextRound == RoundFill \/ RoundReconcile

SpecRound == InitRound /\ [][NextRound]_vars

\* ------------------------------------------------------------------ events and pulls of one order

\* The venue fills the order by a; the stream delivers the cumulative
\* quantity or loses the event.
EventFill ==
    /\ venue[1].open
    /\ \E a \in 1..(venue[1].qty - venue[1].filled), delivered \in BOOLEAN :
          LET f == venue[1].filled + a
          IN  /\ venue' = [venue EXCEPT ![1].filled = f,
                                        ![1].open = f < venue[1].qty]
              /\ IF delivered
                 THEN /\ Len(fill_queue) < MaxEvents
                      /\ fill_queue' = Append(fill_queue,
                                              [order_id |-> 1, filled_qty |-> f])
                 ELSE fill_queue' = fill_queue
    /\ last' = NoTick
    /\ UNCHANGED <<active_orders, level_to_oid, naked_exposure,
                   total_filled_base, total_hedged_base, paused,
                   requote_all_levels, pc, hres, sel, running, close_task,
                   hedge_threads>>

\* The stream delivers an event again or out of order: a cumulative quantity
\* the venue reported earlier.
EventStale ==
    /\ Len(fill_queue) < MaxEvents
    /\ \E c \in 1..venue[1].filled :
          fill_queue' = Append(fill_queue, [order_id |-> 1, filled_qty |-> c])
    /\ last' = NoTick
    /\ UNCHANGED <<active_orders, level_to_oid, naked_exposure,
                   total_filled_base, total_hedged_base, paused,
                   requote_all_levels, venue, pc, hres, sel, running,
                   close_task, hedge_threads>>

\* The venue no longer finds the order: its queries answer -2013.
EventForget ==
    /\ venue[1].qty > 0
    /\ ~venue[1].open
    /\ venue' = [venue EXCEPT ![1] = NoOrder]
    /\ last' = NoTick
    /\ UNCHANGED <<active_orders, level_to_oid, naked_exposure,
                   total_filled_base, total_hedged_base, paused,
                   requote_all_levels, fill_queue, pc, hres, sel, running,
                   close_task, hedge_threads>>

\* check_fills_and_hedge on the queued events, with the periodic pull due or
\* not; no gap check is due.  The step is named after what it read.
EventReconcile ==
    /\ DOMAIN active_orders # {}
    /\ WithinLedger
    /\ \E restDue \in BOOLEAN, resp \in SpecScripts :
          LET s == CheckFillsAndHedge(St, restDue, FALSE, resp, AllOk)
          IN  /\ active_orders' = s.ao
              /\ level_to_oid' = s.l2o
              /\ naked_exposure' = s.naked
              /\ total_filled_base' = s.filled
              /\ total_hedged_base' = s.hedged
              /\ requote_all_levels' = s.requote
              /\ fill_queue' = s.q
              /\ last' = Hist(IF ~restDue THEN "reconciled"
                              ELSE IF fill_queue = << >> THEN "pulled_only"
                              ELSE "pulled")
    /\ UNCHANGED <<paused, venue, pc, hres, sel, running, close_task,
                   hedge_threads>>

NextEvents == EventFill \/ EventStale \/ EventForget \/ EventReconcile

SpecEvents == InitRound /\ [][NextEvents]_vars

\* ------------------------------------------------------------------ the fully-filled path

\* A ladder of three orders of one lot each rests at the venue, tracked,
\* each filled by any quantity the engine has not seen yet.
InitFilled ==
    /\ active_orders = [o \in Levels |->
                           [level_idx |-> o, price |-> 11 - o,
                            qty |-> LotSize, accounted_qty |-> 0,
                            hedged_qty |-> 0]]
    /\ level_to_oid = [lv \in Levels |-> lv]
    /\ \E f \in [Levels -> 0..LotSize] :
          venue = [o \in OIDs |->
                     IF o \in Levels
                     THEN [qty |-> LotSize, filled |-> f[o],
                           open |-> f[o] < LotSize]
                     ELSE NoOrder]
    /\ naked_exposure = 0
    /\ total_filled_base = 0
    /\ total_hedged_base = 0
    /\ paused = FALSE
    /\ requote_all_levels = FALSE
    /\ fill_queue = << >>
    /\ pc = "top"
    /\ last = NoTick
    /\ hres = NoCall
    /\ sel = NoSelection
    /\ running = TRUE
    /\ close_task = NoCloseTask
    /\ hedge_threads = NoHedgeThreads

\* The venue fills an open order of the ladder.
FilledFill ==
    /\ \E o \in Levels :
          /\ venue[o].open
          /\ \E a \in 1..(venue[o].qty - venue[o].filled) :
                venue' = [venue EXCEPT
                            ![o].filled = venue[o].filled + a,
                            ![o].open = venue[o].filled + a < venue[o].qty]
    /\ UNCHANGED <<active_orders, level_to_oid, naked_exposure,
                   total_filled_base, total_hedged_base, paused,
                   requote_all_levels, fill_queue, pc, last, hres, sel,
                   running, close_task, hedge_threads>>

\* check_fills_and_hedge with the pull due.  hres keeps the maps and the flag
\* as they were before the call and the orders the callback removed, each
\* as it was when removed.
FilledReconcile ==
    /\ DOMAIN active_orders # {}
    /\ WithinLedger
    /\ \E resp \in SpecScripts :
       \E s \in {CheckFillsAndHedge(St, TRUE, FALSE, resp, AllOk)} :
          /\ active_orders' = s.ao
          /\ level_to_oid' = s.l2o
          /\ naked_exposure' = s.naked
          /\ total_filled_base' = s.filled
          /\ total_hedged_base' = s.hedged
          /\ requote_all_levels' = s.requote
          /\ fill_queue' = s.q
          /\ hres' = [called |-> TRUE, closed |-> s.closed,
                      ao |-> active_orders, l2o |-> level_to_oid,
                      requote |-> requote_all_levels]
    /\ UNCHANGED <<paused, venue, pc, last, sel, running, close_task,
                   hedge_threads>>

NextFilled == FilledFill \/ FilledReconcile

SpecFilled == InitFilled /\ [][NextFilled]_vars

\* ------------------------------------------------------------------ a cancel-all the venue interrupts

\* _cancel_level_order whose adapter.cancel_order raises (an error other than
\* "unknown order"): the first detection has run and credited the order, the
\* order stays open at the venue, the second detection is not reached.
CancelLevelRaised(s, level_idx) ==
    IF level_idx \notin DOMAIN s.l2o THEN s
    ELSE IF s.l2o[level_idx] \notin DOMAIN s.ao THEN s
    ELSE DetectFillsOnCancel(s, s.l2o[level_idx])

\* _cancel_all_orders in which the cancel of level failLv raises: the levels
\* before it are cancelled, the exception leaves the loop, the maps are not
\* cleared and no total is returned.
RECURSIVE CancelLevelsUpTo(_, _, _, _)
CancelLevelsUpTo(s, inflight, lv, failLv) ==
    IF lv = failLv THEN CancelLevelRaised(s, lv)
    ELSE CancelLevelsUpTo(CancelLevelOrder(s, lv, inflight[lv]), inflight,
                          lv + 1, failLv)

CancelAllInterrupted(s, inflight, failLv) ==
    CancelLevelsUpTo([s EXCEPT !.u = 0], inflight, 1, failLv)

\* `unhedged = self._cancel_all_orders(); if unhedged > 1e-12:
\* self._try_hedge(unhedged)` of run(), the cancel of level failLv raising
\* (0: none does): the exception reaches run()'s handler and the hedge is not
\* reached.
CancelAllOrRaise(s, inflight, failLv, resp) ==
    IF failLv \in DOMAIN s.l2o
    THEN CancelAllInterrupted(s, inflight, failLv)
    ELSE CancelAllAndHedge(s, inflight, resp)

\* A branch of run() that cancels all and hedges, on the ladder as the venue
\* has filled it.  hres keeps what the call's detections credited and what it
\* passed to try_hedge.
InterruptCancelAll ==
    /\ DOMAIN active_orders # {}
    /\ WithinLedger
    /\ \E failLv \in 0..3, inflight \in Inflights(St), resp \in SpecScripts :
       \E s \in {CancelAllOrRaise(St, inflight, failLv, resp)} :
          /\ active_orders' = s.ao
          /\ level_to_oid' = s.l2o
          /\ naked_exposure' = s.naked
          /\ total_filled_base' = s.filled
          /\ total_hedged_base' = s.hedged
          /\ fill_queue' = s.q
          /\ venue' = s.ven
          /\ hres' = [called |-> TRUE, found |-> s.found,
                      handed |-> s.handed,
                      raised |-> failLv \in DOMAIN level_to_oid]
    /\ UNCHANGED <<paused, requote_all_levels, pc, last, sel, running,
                   close_task, hedge_threads>>

NextInterrupt == FilledFill \/ InterruptCancelAll

SpecInterrupt == InitFilled /\ [][NextInterrupt]_vars

\* ------------------------------------------------------------------ drain_fill_queue alone

\* The push events the stream can have queued: of the tracked order 1 or of
\* an order the engine does not track, any cumulative quantity of the order's
\* size, in any order of arrival.
DrainEvents ==
    [order_id : {1, 2}, filled_qty : 1..(MaxRoundLots * LotSize)]

\* Order 1 rests at the venue, tracked, and the queue holds up to MaxEvents
\* events.
InitDrain ==
    /\ active_orders = (1 :> [level_idx |-> 1, price |-> 10,
                              qty |-> MaxRoundLots * LotSize,
                              accounted_qty |-> 0, hedged_qty |-> 0])
    /\ venue = [o \in OIDs |->
                  IF o = 1 THEN [qty |-> MaxRoundLots * LotSize,
                                 filled |-> MaxRoundLots * LotSize,
                                 open |-> FALSE]
                  ELSE NoOrder]
    /\ level_to_oid = (1 :> 1)
    /\ naked_exposure = 0
    /\ total_filled_base = 0
    /\ total_hedged_base = 0
    /\ paused = FALSE
    /\ requote_all_levels = FALSE
    /\ fill_queue \in UNION {[1..n -> DrainEvents] : n \in 0..MaxEvents}
    /\ pc = "top"
    /\ last = NoTick
    /\ hres = NoCall
    /\ sel = NoSelection
    /\ running = TRUE
    /\ close_task = NoCloseTask
    /\ hedge_threads = NoHedgeThreads

\* One call of drain_fill_queue: the queue is emptied; hres keeps the events
\* it held and the dictionary returned.
DrainCall ==
    /\ ~hres.called
    /\ hres' = [called |-> TRUE, events |-> fill_queue,
                fills |-> DrainedFills(St)]
    /\ fill_queue' = << >>
    /\ UNCHANGED <<active_orders, level_to_oid, naked_exposure,
                   total_filled_base, total_hedged_base, paused,
                   requote_all_levels, venue, pc, last, sel, running,
                   close_task, hedge_threads>>

SpecDrain == InitDrain /\ [][DrainCall]_vars

\* ------------------------------------------------------------------ the cancel of one order

\* The push events that can reach the queue during a cancel of order oid that
\* fills by inflight meanwhile: none, the event of the last fill before the
\* cancel (delayed), or the event of the in-flight fill.
LateEvents(s, oid, inflight) ==
    {<< >>}
      \cup {<<[order_id |-> oid, filled_qty |-> s.ven[oid].filled]>> :
                x \in {y \in {1} : s.ven[oid].filled > 0}}
      \cup {<<[order_id |-> oid, filled_qty |-> s.ven[oid].filled + inflight]>> :
                x \in {y \in {1} : inflight > 0}}

\* _cancel_level_order(1) while the venue may fill the order and the stream
\* may deliver an event; the maps are left to the caller.
CancelOrder ==
    /\ 1 \in DOMAIN active_orders
    /\ venue[1].open
    /\ \E inflight \in 0..(venue[1].qty - venue[1].filled) :
       \E late \in LateEvents(St, 1, inflight) :
          LET s == CancelLevelOrderWith(St, 1, inflight, late)
          IN  /\ active_orders' = s.ao
              /\ level_to_oid' = s.l2o
              /\ total_filled_base' = s.filled
              /\ fill_queue' = s.q
              /\ venue' = s.ven
              /\ last' = [Hist("cancelled") EXCEPT !.found = s.found,
                                                   !.cancelled = s.cancelled]
    /\ UNCHANGED <<naked_exposure, total_hedged_base, paused,
                   requote_all_levels, pc, hres, sel, running, close_task,
                   hedge_threads>>

NextCancel == EventFill \/ EventReconcile \/ CancelOrder

SpecCancel == InitRound /\ [][NextCancel]_vars

\* ------------------------------------------------------------------ the threads on the hedger's counters

\* The operations begun and those a thread has committed itself to.
OpsBegun ==
    Len(hedge_threads.ops)
      + Cardinality({t \in Threads : hedge_threads.call[t].kind = "handed"})

\* A thread records a spot fill of qty (check_fills_and_hedge or a cancel's
\* detection) that it will hand to try_hedge.
LockAccount(t) ==
    /\ hedge_threads.call[t].kind = "none"
    /\ OpsBegun < MaxOps
    /\ \E qty \in 1..(LotSize + 1) :
          /\ total_filled_base' = total_filled_base + qty
          /\ hedge_threads' =
                [hedge_threads EXCEPT !.call[t] =
                    [NoHedgeCall EXCEPT !.kind = "handed", !.qty = qty]]
    /\ UNCHANGED <<active_orders, level_to_oid, naked_exposure,
                   total_hedged_base, paused, requote_all_levels, fill_queue,
                   venue, pc, last, hres, sel, running, close_task>>

\* try_hedge(qty), first half: the thread takes the hedge lock and, under the
\* state lock, snapshots naked_exposure.
LockHedgeBegin(t) ==
    /\ hedge_threads.lock = "free"
    /\ hedge_threads.call[t].kind = "handed"
    /\ \E resp \in SpecScripts :
          hedge_threads' =
             [lock |-> t,
              call |-> [hedge_threads.call EXCEPT ![t] =
                           [kind |-> "hedge", qty |-> hedge_threads.call[t].qty,
                            naked |-> naked_exposure, resp |-> resp]],
              ops |-> Append(hedge_threads.ops,
                             [thread |-> t, kind |-> "hedge",
                              qty |-> hedge_threads.call[t].qty,
                              resp |-> resp])]
    /\ UNCHANGED <<active_orders, level_to_oid, naked_exposure,
                   total_filled_base, total_hedged_base, paused,
                   requote_all_levels, fill_queue, venue, pc, last, hres, sel,
                   running, close_task>>

\* try_hedge, second half: the venue has answered; the thread writes the
\* counters from its snapshot and releases the hedge lock.
LockHedgeEnd(t) ==
    /\ hedge_threads.call[t].kind = "hedge"
    /\ \E c \in {hedge_threads.call[t]} :
          LET r == TryHedge(c.naked, total_hedged_base, c.qty, c.resp)
          IN  /\ total_hedged_base' = r.hedged
              /\ naked_exposure' = IF c.qty <= 0 /\ c.qty + c.naked <= 0
                                   THEN naked_exposure
                                   ELSE r.naked
    /\ hedge_threads' = [hedge_threads EXCEPT !.lock = "free",
                                              !.call[t] = NoHedgeCall]
    /\ UNCHANGED <<active_orders, level_to_oid, total_filled_base, paused,
                   requote_all_levels, fill_queue, venue, pc, last, hres, sel,
                   running, close_task>>

\* try_recover_naked_exposure, first half, called by run().
LockRecoverBegin ==
    /\ hedge_threads.lock = "free"
    /\ hedge_threads.call["main"].kind = "none"
    /\ OpsBegun < MaxOps
    /\ \E resp \in SpecScripts :
          hedge_threads' =
             [lock |-> "main",
              call |-> [hedge_threads.call EXCEPT !["main"] =
                           [kind |-> "recover", qty |-> 0,
                            naked |-> naked_exposure, resp |-> resp]],
              ops |-> Append(hedge_threads.ops,
                             [thread |-> "main", kind |-> "recover",
                              qty |-> 0, resp |-> resp])]
    /\ UNCHANGED <<active_orders, level_to_oid, naked_exposure,
                   total_filled_base, total_hedged_base, paused,
                   requote_all_levels, fill_queue, venue, pc, last, hres, sel,
                   running, close_task>>

\* try_recover_naked_exposure, second half.
LockRecoverEnd ==
    /\ hedge_threads.call["main"].kind = "recover"
    /\ \E c \in {hedge_threads.call["main"]} :
          LET r == RecoverAt(c.naked, naked_exposure, total_hedged_base, c.resp)
          IN  /\ total_hedged_base' = r.hedged
              /\ naked_exposure' = r.naked
    /\ hedge_threads' = [hedge_threads EXCEPT !.lock = "free",
                                              !.call["main"] = NoHedgeCall]
    /\ UNCHANGED <<active_orders, level_to_oid, total_filled_base, paused,
                   requote_all_levels, fill_queue, venue, pc, last, hres, sel,
                   running, close_task>>

\* The gap of the periodic gap check.
Gap(naked, hedged, filled) == filled - hedged - naked

\* The gap check of check_fills_and_hedge, run by run(): under the state lock
\* a gap of a lot or more is added to naked_exposure, and try_hedge(0) follows.
LockGap ==
    /\ hedge_threads.call["main"].kind = "none"
    /\ OpsBegun < MaxOps
    /\ \E gap \in {Gap(naked_exposure, total_hedged_base, total_filled_base)} :
          /\ naked_exposure' = IF gap >= LotSize THEN naked_exposure + gap
                               ELSE naked_exposure
          /\ hedge_threads' =
                [hedge_threads EXCEPT
                    !.call["main"] =
                        IF gap >= LotSize
                        THEN [NoHedgeCall EXCEPT !.kind = "handed"]
                        ELSE NoHedgeCall,
                    !.ops = Append(@, [thread |-> "main", kind |-> "gap",
                                       qty |-> 0, resp |-> AllOk])]
    /\ UNCHANGED <<active_orders, level_to_oid, total_filled_base,
                   total_hedged_base, paused, requote_all_levels, fill_queue,
                   venue, pc, last, hres, sel, running, close_task>>

\* The end of _run_close_task: the pending hedge is added to naked_exposure
\* under the close task's own lock.
LockTransfer ==
    /\ hedge_threads.call["close"].kind = "none"
    /\ OpsBegun < MaxOps
    /\ \E pending_hedge \in 1..LotSize :
          /\ naked_exposure' = naked_exposure + pending_hedge
          /\ hedge_threads' =
                [hedge_threads EXCEPT
                    !.ops = Append(@, [thread |-> "close", kind |-> "transfer",
                                       qty |-> pending_hedge, resp |-> AllOk])]
    /\ UNCHANGED <<active_orders, level_to_oid, total_filled_base,
                   total_hedged_base, paused, requote_all_levels, fill_queue,
                   venue, pc, last, hres, sel, running, close_task>>

NextLock ==
    \/ \E t \in Threads : LockAccount(t)
    \/ \E t \in Threads : LockHedgeBegin(t)
    \/ \E t \in Threads : LockHedgeEnd(t)
    \/ LockRecoverBegin
    \/ LockRecoverEnd
    \/ LockGap
    \/ LockTransfer

SpecLock == InitEngine /\ [][NextLock]_vars

\* One operation run alone on the counters c = (naked, hedged, filled).
RunOp(c, op) ==
    IF op.kind = "hedge"
    THEN [naked |-> TryHedge(c.naked, c.hedged, op.qty, op.resp).naked,
          hedged |-> TryHedge(c.naked, c.hedged, op.qty, op.resp).hedged,
          filled |-> c.filled + op.qty]
    ELSE IF op.kind = "recover"
    THEN [naked |-> TryRecover(c.naked, c.hedged, op.resp).naked,
          hedged |-> TryRecover(c.naked, c.hedged, op.resp).hedged,
          filled |-> c.filled]
    ELSE IF op.kind = "gap"
    THEN [c EXCEPT !.naked = IF Gap(c.naked, c.hedged, c.filled) >= LotSize
                             THEN @ + Gap(c.naked, c.hedged, c.filled)
                             ELSE @]
    ELSE [c EXCEPT !.naked = @ + op.qty]

\* The operations ops run one after the other in the order p, from the i-th.
RECURSIVE RunOps(_, _, _, _)
RunOps(c, ops, p, i) ==
    IF i > Len(ops) THEN c ELSE RunOps(RunOp(c, ops[p[i]]), ops, p, i + 1)

\* The serial orders of ops: every thread's operations in the order it began
\* them.
SerialOrders(ops) ==
    {p \in [1..Len(ops) -> 1..Len(ops)] :
        /\ \A i, j \in 1..Len(ops) : i # j => p[i] # p[j]
        /\ \A i, j \in 1..Len(ops) :
              (i < j /\ ops[p[i]].thread = ops[p[j]].thread) => p[i] < p[j]}

\* The counters every serial order of ops leaves, from an empty ledger.
SerialOutcomes(ops) ==
    {RunOps([naked |-> 0, hedged |-> 0, filled |-> 0], ops, p, 1) :
        p \in SerialOrders(ops)}

\* ------------------------------------------------------------------ the close task

\* The ask books a round of the close task reads (prices, best first) and the
\* perpetual asks: a book too short, a full one; no quote, a perpetual ask
\* that passes both spread tests, one that passes only ask 3's.
CloseBooks == {<<10, 11>>, <<10, 11, 12, 13, 14>>}
CloseFutAsks == {0, 10, 12}

\* A start that asks no question.
StartUnchecked(c) == TRUE

\* `if self._close_task_running: return False` of start_close_task.
StartAllowed(c) == ~c.running

\* The quantities the close commands ask for: none, less than
\* min_order_qty, one lot, MaxCloseLots lots.
CloseTargets == {0, 1, LotSize, MaxCloseLots * LotSize}

\* start_close_task(symbol, qty) for the traded symbol, qty drawn from
\* targets, while fewer than `tasks` threads were started: refused for
\* qty <= 0 and while a close task runs, else the flag and the status are set
\* and the thread is started.
CloseStartIn(targets, tasks) ==
    /\ close_task.runs < tasks
    /\ \E qty \in targets :
          close_task' =
             IF qty <= 0 \/ ~StartAllowed(close_task)
             THEN [close_task EXCEPT !.start = "refused", !.asked = qty,
                                     !.bought = FALSE]
             ELSE [close_task EXCEPT
                      !.start = "ok", !.asked = qty,
                      !.running = TRUE, !.status = TRUE,
                      !.threads = @ + 1, !.runs = @ + 1, !.phase = "begin",
                      !.round = 0,
                      !.target_qty = qty, !.sold = 0, !.perp_bought = 0,
                      !.pending_hedge = 0, !.carried = 0,
                      !.open_orders = << >>, !.asks = << >>, !.fut_ask = 0,
                      !.placed = {}, !.bought = FALSE,
                      !.left_open = << >>]
    /\ UNCHANGED <<active_orders, level_to_oid, naked_exposure,
                   total_filled_base, total_hedged_base, paused,
                   requote_all_levels, fill_queue, venue, pc, last, hres, sel,
                   running, hedge_threads>>

\* The head of _run_close_task: the pending hedge carried in is read, the
\* engine is paused, the buy orders are cancelled and their fills hedged.
CloseBegin ==
    /\ close_task.phase = "begin"
    /\ \E s \in {IF DOMAIN active_orders # {}
                 THEN CancelAllAndHedge(St, NoInflight, AllOk) ELSE St} :
          /\ active_orders' = s.ao
          /\ level_to_oid' = s.l2o
          /\ naked_exposure' = s.naked
          /\ total_filled_base' = s.filled
          /\ total_hedged_base' = s.hedged
          /\ fill_queue' = s.q
          /\ venue' = s.ven
    /\ paused' = TRUE
    /\ close_task' = [close_task EXCEPT
                         !.pending_hedge = Max(0, close_task.close_pending),
                         !.carried = Max(0, close_task.close_pending),
                         !.phase = "round", !.start = "none", !.asked = 0,
                         !.bought = FALSE]
    /\ UNCHANGED <<requote_all_levels, pc, last, hres, sel, running,
                   hedge_threads>>

\* The prices of ask 1 and ask 2.
ClosePricesTop(asks) == <<asks[1], asks[2]>>

\* asks[1][0] and asks[2][0]: the prices of ask 2 and ask 3.
ClosePrices(asks) == <<asks[2], asks[3]>>

\* spread >= min_spread for spread = (price - fut_ask) / price, -1 when the
\* price is not positive.
CloseSpreadOk(price, fut_ask) ==
    /\ price > 0
    /\ (price - fut_ask) * 10000 >= MinSpreadBps * price

\* int(5.5 / price / lot + 1) * lot.
CloseNotionalQty(price) ==
    IF price > 0
    THEN ((CloseNotionalX10 \div (10 * price * LotSize)) + 1) * LotSize
    ELSE 0

\* The quantities <<qty2, qty3>> a round gives its two sells: the weighted
\* share floored to the lot, raised to the notional floor, a quantity below
\* min_order_qty dropped or replaced.
CloseQuantities(remaining, price2, price3) ==
    LET q2a == ((remaining * LevelWeights[2]) \div (100 * LotSize)) * LotSize
        q3a == FloorLot(remaining - q2a)
        q2b == IF 0 < q2a /\ q2a < CloseNotionalQty(price2)
               THEN CloseNotionalQty(price2) ELSE q2a
        q3b == IF 0 < q3a /\ q3a < CloseNotionalQty(price3)
               THEN CloseNotionalQty(price3) ELSE q3a
        q2c == IF q2b < MinOrderQty /\ q3b >= MinOrderQty THEN 0 ELSE q2b
        q3c == IF q3b < MinOrderQty /\ q2c >= MinOrderQty
               THEN FloorLot(remaining) ELSE q3b
    IN  <<q2c, q3c>>

\* The sells a round places: order 2 at price2, order 3 at price3, each only
\* for a quantity of min_order_qty or more.
CloseOrders(prices, qtys) ==
    [o \in {i \in {2, 3} : qtys[i - 1] >= MinOrderQty} |->
        [price |-> prices[o - 1], qty |-> qtys[o - 1], filled |-> 0]]

\* A loop whose rounds are never used up.
RoundsNeverUsedUp(c, max_rounds) == FALSE

\* `for _ in range(max_rounds)` has run max_rounds iterations.
RoundsUsedUp(c, max_rounds) == c.round >= max_rounds

\* The thread's locals after the loop is left.
CloseLeave(c) == [c EXCEPT !.phase = "done", !.bought = FALSE,
                           !.start = "none", !.asked = 0]

\* One iteration of `for _ in range(max_rounds)` up to the placement (the
\* book read is kept with the orders placed from it): the
\* loop is left when the rounds are used up, when the remaining quantity is
\* below min_order_qty and when neither sell reaches it; the round is skipped
\* on a short book, a missing perpetual ask and a spread below min_spread;
\* else the sells are placed at ask 2 and ask 3.
CloseRoundOn(c, asks, fut_ask, max_rounds) ==
    LET remaining == Max(0, c.target_qty - c.sold)
        r == [c EXCEPT !.round = @ + 1, !.bought = FALSE, !.start = "none",
                       !.asked = 0,
                       !.asks = << >>, !.fut_ask = 0, !.placed = {}]
        prices == ClosePrices(asks)
        qtys == CloseQuantities(remaining, prices[1], prices[2])
        orders == CloseOrders(prices, qtys)
    IN  IF RoundsUsedUp(c, max_rounds) THEN CloseLeave(c)
        ELSE IF remaining < MinOrderQty THEN CloseLeave(r)
        ELSE IF Len(asks) < 3 \/ fut_ask <= 0 THEN r
        ELSE IF ~CloseSpreadOk(prices[1], fut_ask)
                  \/ ~CloseSpreadOk(prices[2], fut_ask) THEN r
        ELSE IF qtys[1] < MinOrderQty /\ qtys[2] < MinOrderQty
        THEN CloseLeave(r)
        ELSE [r EXCEPT !.phase = "open", !.open_orders = orders,
                       !.asks = asks, !.fut_ask = fut_ask,
                       !.placed = {[price |-> orders[o].price,
                                    qty |-> orders[o].qty] :
                                       o \in DOMAIN orders}]

\* One iteration of the loop on a book and a perpetual ask drawn from books
\* and fut_asks.
CloseRoundFrom(books, fut_asks, max_rounds) ==
    /\ close_task.phase = "round"
    /\ \E asks \in books, fut_ask \in fut_asks :
          close_task' = CloseRoundOn(close_task, asks, fut_ask, max_rounds)
    /\ UNCHANGED <<active_orders, level_to_oid, naked_exposure,
                   total_filled_base, total_hedged_base, paused,
                   requote_all_levels, fill_queue, venue, pc, last, hres, sel,
                   running, hedge_threads>>

CloseRoundIn(max_rounds) ==
    CloseRoundFrom(CloseBooks, CloseFutAsks, max_rounds)

\* A sell fill counted as sold but not as pending.
CloseSoldOnly(c, new_fill) ==
    IF new_fill > 0 THEN [c EXCEPT !.sold = @ + new_fill] ELSE c

\* `sold += new_fill; pending_hedge += new_fill`.
CloseSold(c, new_fill) ==
    IF new_fill > 0
    THEN [c EXCEPT !.sold = @ + new_fill, !.pending_hedge = @ + new_fill]
    ELSE c

\* The perpetual market buy of the lot-floored pending hedge: bought on
\* success, kept pending when the venue raises.
CloseBuy(c, resp) ==
    IF FloorLot(c.pending_hedge) >= LotSize /\ resp = "ok"
    THEN [c EXCEPT !.perp_bought = @ + FloorLot(c.pending_hedge),
                   !.pending_hedge =
                       Max(0, @ - FloorLot(c.pending_hedge)),
                   !.bought = TRUE]
    ELSE c

\* The answers of get_order_filled_qty explored for a sell: not found, one
\* unit more than last seen, filled in full, unchanged.
CloseAnswers(info) ==
    {-1, info.filled, Min(info.qty, info.filled + 1), info.qty}

\* One order's turn in the monitoring loop: a new fill is added to sold and
\* to the pending hedge and the perpetual buy is tried; a full order leaves
\* open_orders.
CloseDetectOn(c, oid, filled, resp) ==
    LET info == c.open_orders[oid]
        new_fill == Max(0, filled - info.filled)
        c0 == [c EXCEPT !.bought = FALSE, !.start = "none", !.asked = 0]
        c1 == IF new_fill > 0
              THEN CloseBuy(CloseSold([c0 EXCEPT
                                          !.open_orders[oid].filled = filled],
                                      new_fill),
                            resp)
              ELSE c0
    IN  IF filled < 0 THEN c0
        ELSE IF filled >= info.qty
        THEN [c1 EXCEPT !.open_orders = Without(c1.open_orders, oid)]
        ELSE c1

CloseDetect ==
    /\ close_task.phase = "open"
    /\ \E oid \in DOMAIN close_task.open_orders, resp \in {"ok", "err"} :
       \E filled \in CloseAnswers(close_task.open_orders[oid]) :
          close_task' = CloseDetectOn(close_task, oid, filled, resp)
    /\ UNCHANGED <<active_orders, level_to_oid, naked_exposure,
                   total_filled_base, total_hedged_base, paused,
                   requote_all_levels, fill_queue, venue, pc, last, hres, sel,
                   running, hedge_threads>>

\* The end of a round: every order still open is cancelled, what it filled
\* meanwhile (final holds the larger of the pulls around the cancel and the
\* quantity last seen) is counted, and the pending hedge is bought.
CloseCancelOn(c, final, resp) ==
    CloseBuy(
        [CloseSold([c EXCEPT !.bought = FALSE, !.start = "none",
                             !.asked = 0],
                   SumOver([o \in DOMAIN c.open_orders |->
                               Max(0, final[o] - c.open_orders[o].filled)],
                           DOMAIN c.open_orders))
            EXCEPT !.open_orders = << >>, !.phase = "round"],
        resp)

CloseCancelRest ==
    /\ close_task.phase = "open"
    /\ \E resp \in {"ok", "err"} :
       \E final \in [DOMAIN close_task.open_orders -> 0..(MaxCloseLots * LotSize)] :
          /\ \A o \in DOMAIN final :
                final[o] \in CloseAnswers(close_task.open_orders[o]) \ {-1}
          /\ close_task' = CloseCancelOn(close_task, final, resp)
    /\ UNCHANGED <<active_orders, level_to_oid, naked_exposure,
                   total_filled_base, total_hedged_base, paused,
                   requote_all_levels, fill_queue, venue, pc, last, hres, sel,
                   running, hedge_threads>>

\* The pending hedge saved for the next close task.
ClosePendingKept(pending_hedge) == Max(0, pending_hedge)

\* The last lines of _run_close_task, the same after the loop and in the
\* exception handler: the pending hedge is saved and added to
\* naked_exposure, the status reports running = False, the flag is cleared.
\* left_open keeps the thread's open_orders as they were when it returned:
\* the sells placed that the task neither saw filled in full nor cancelled.
CloseOut(how) ==
    /\ naked_exposure' = IF close_task.pending_hedge > 0
                         THEN naked_exposure + close_task.pending_hedge
                         ELSE naked_exposure
    /\ close_task' = [close_task EXCEPT
                         !.close_pending =
                             ClosePendingKept(close_task.pending_hedge),
                         !.status = FALSE, !.running = FALSE,
                         !.threads = @ - 1, !.phase = "idle",
                         !.ended = how, !.open_orders = << >>,
                         !.left_open = close_task.open_orders,
                         !.asks = << >>, !.fut_ask = 0, !.placed = {},
                         !.bought = FALSE, !.start = "none", !.asked = 0]
    /\ UNCHANGED <<active_orders, level_to_oid, total_filled_base,
                   total_hedged_base, paused, requote_all_levels, fill_queue,
                   venue, pc, last, hres, sel, running, hedge_threads>>

\* The loop was left: the task ends.
CloseEnd ==
    /\ close_task.phase = "done"
    /\ CloseOut("normal")

\* A call of the adapter raises inside the try block.
CloseRaise ==
    /\ close_task.phase \in {"begin", "round", "open"}
    /\ CloseOut("exception")

\* The steps of the close task's thread, given max_rounds rounds.
CloseThreadIn(max_rounds) ==
    \/ CloseBegin
    \/ CloseRoundIn(max_rounds)
    \/ CloseDetect
    \/ CloseCancelRest
    \/ CloseEnd
    \/ CloseRaise

CloseStart == CloseStartIn(CloseTargets, MaxCloseTasks)
CloseRound == CloseRoundIn(CloseRoundsExplored)

NextClose ==
    \/ CloseStart
    \/ CloseBegin
    \/ CloseRound
    \/ CloseDetect
    \/ CloseCancelRest
    \/ CloseEnd
    \/ CloseRaise

SpecClose == InitEngine /\ [][NextClose]_vars

\* One close task of less than min_order_qty or of one lot, given the
\* max_rounds of the code; its thread keeps running until it ends.
CloseStartOne == CloseStartIn({1, LotSize}, 1)
CloseRoundFull == CloseRoundIn(MaxCloseRounds)

NextCloseRounds ==
    \/ CloseStartOne
    \/ CloseBegin
    \/ CloseRoundFull
    \/ CloseDetect
    \/ CloseCancelRest
    \/ CloseEnd
    \/ CloseRaise

SpecCloseRounds ==
    InitEngine /\ [][NextCloseRounds]_vars
      /\ WF_vars(CloseThreadIn(MaxCloseRounds))

\* One close task of one or MaxCloseLots lots on a cheap book: at ask 2 the
\* notional floor 5.5 is two lots, at ask 3 one lot.
CheapBooks == {<<1, 2, 3, 4, 5>>}
CheapFutAsks == {2}
CloseStartCheap == CloseStartIn({LotSize, MaxCloseLots * LotSize}, 1)
CloseRoundCheap == CloseRoundFrom(CheapBooks, CheapFutAsks, CloseRoundsExplored)

NextCloseCheap ==
    \/ CloseStartCheap
    \/ CloseBegin
    \/ CloseRoundCheap
    \/ CloseDetect
    \/ CloseCancelRest
    \/ CloseEnd
    \/ CloseRaise

SpecCloseCheap == InitEngine /\ [][NextCloseCheap]_vars

\* C37: every per-order hedge credit is backed: on every path of a
\* cancel-all, one the venue interrupts by an error included, the quantity
\* the cancel-time detections credited to the orders' hedged_qty was passed
\* to try_hedge, so the hedged_qty credited to the tracked orders never
\* exceeds total_hedged_base + naked_exposure.
CancelCreditsBacked ==
    /\ [](hres.called => hres.handed = hres.found)
    /\ [](SumOver([o \in DOMAIN active_orders |->
                     active_orders[o].hedged_qty], DOMAIN active_orders)
            <= total_hedged_base + naked_exposure)

\* C31: when the close task places its first sells the engine is paused, no
\* engine buy order is open at the venue or tracked, and what its cancels
\* found unhedged was passed to try_hedge, whatever a tick that was in
\* progress when the task started did meanwhile.
CloseStartsFlat ==
    [][(close_task.phase = "round" /\ close_task'.phase = "open") =>
          /\ paused
          /\ DOMAIN active_orders = {}
          /\ DOMAIN level_to_oid = {}
          /\ \A o \in OIDs : ~venue[o].open
          /\ hres.handed = hres.found]_vars

\* C38: no live order becomes untracked: every buy order open at the venue
\* is in active_orders and under its level in level_to_oid, whatever the
\* interleaving of a tick with the close task's cancel-all.
LiveOrdersTracked ==
    \A o \in OIDs :
        venue[o].open =>
            /\ o \in DOMAIN active_orders
            /\ \E lv \in DOMAIN level_to_oid : level_to_oid[lv] = o

\* C39: when a close task has ended, after the loop or in the exception
\* handler, none of the sells it placed is left open at the venue with a fill
\* not counted in spot_sold: every sell it placed was seen filled in full or
\* was cancelled and its last fill counted.
CloseLeavesNoSell ==
    (close_task.ended # "none" /\ close_task.phase = "idle")
       => close_task.left_open = << >>

\* ------------------------------------------------------------------ stop and exit

\* The market a tick reads while the engine is being stopped.
StopMarkets == { [bids |-> Book(<<10, 9, 8, 7, 6>>), fut |-> 15] }

TickQuoteStop == TickQuoteIn(StopMarkets)

\* The venue fills the order of level 1 in full between two ticks, and the
\* stream delivers the event.
StopFill ==
    /\ pc = "top"
    /\ 1 \in DOMAIN level_to_oid
    /\ venue[level_to_oid[1]].open
    /\ Len(fill_queue) < MaxQueue
    /\ venue' = [venue EXCEPT ![level_to_oid[1]].filled =
                                  venue[level_to_oid[1]].qty,
                              ![level_to_oid[1]].open = FALSE]
    /\ fill_queue' = Append(fill_queue,
                            [order_id |-> level_to_oid[1],
                             filled_qty |-> venue[level_to_oid[1]].qty])
    /\ last' = NoTick
    /\ UNCHANGED <<active_orders, level_to_oid, naked_exposure,
                   total_filled_base, total_hedged_base, paused,
                   requote_all_levels, pc, hres, sel, running, close_task,
                   hedge_threads>>

\* SpotFuturesArbitrageBot.stop, called from the control thread or a signal.
Stop ==
    /\ running
    /\ pc \in {"top", "recover", "quote", "post"}
    /\ running' = FALSE
    /\ UNCHANGED <<active_orders, level_to_oid, naked_exposure,
                   total_filled_base, total_hedged_base, paused,
                   requote_all_levels, fill_queue, venue, pc, last, hres, sel,
                   close_task, hedge_threads>>

\* A call inside the tick raises: run() logs, sleeps and goes back to the
\* test of its loop.
TickRaise ==
    /\ pc \in {"recover", "quote", "post"}
    /\ pc' = "top"
    /\ last' = Hist("raised")
    /\ UNCHANGED <<active_orders, level_to_oid, naked_exposure,
                   total_filled_base, total_hedged_base, paused,
                   requote_all_levels, fill_queue, venue, hres, sel, running,
                   close_task, hedge_threads>>

\* `while self._running` fails: run() returns.
LoopExit ==
    /\ pc = "top"
    /\ ~running
    /\ pc' = "exited"
    /\ last' = Hist("exit")
    /\ UNCHANGED <<active_orders, level_to_oid, naked_exposure,
                   total_filled_base, total_hedged_base, paused,
                   requote_all_levels, fill_queue, venue, hres, sel, running,
                   close_task, hedge_threads>>

\* A cleanup that cancels nothing.
CleanupNothing(ao) == {}

\* bot.get_active_orders_snapshot(): the ids the cleanup cancels.
CleanupTargets(ao) == DOMAIN ao

\* The cancels of the cleanup that raise: none, or one of them.
CleanupFailures(targets) == {{}} \cup {{o} : o \in targets}

\* The `finally` of main(): a cancel is sent for every order of the
\* snapshot; the venue closes the order, or no longer knows it, or the call
\* raises (failed), which is logged, and the loop goes on.
Cleanup ==
    /\ pc = "exited"
    /\ \E failed \in CleanupFailures(CleanupTargets(active_orders)) :
          /\ venue' = [o \in OIDs |->
                         IF o \in CleanupTargets(active_orders) \ failed
                         THEN [venue[o] EXCEPT !.open = FALSE]
                         ELSE venue[o]]
          /\ last' = [Hist("cleanup") EXCEPT
                         !.cancelled = CleanupTargets(active_orders),
                         !.failed = failed]
    /\ pc' = "stopped"
    /\ UNCHANGED <<active_orders, level_to_oid, naked_exposure,
                   total_filled_base, total_hedged_base, paused,
                   requote_all_levels, fill_queue, hres, sel, running,
                   close_task, hedge_threads>>

NextStop ==
    \/ TickReconcile
    \/ TickRecover
    \/ TickQuoteStop
    \/ TickPost
    \/ TickRaise
    \/ LoopExit
    \/ Cleanup
    \/ StopFill
    \/ Stop

\* The thread that found running false goes on to return from run() and to
\* run the `finally` of main().
SpecStop ==
    InitEngine /\ [][NextStop]_vars /\ WF_vars(LoopExit) /\ WF_vars(Cleanup)

\* ------------------------------------------------------------------ the close task beside a tick

\* The book and the perpetual ask the close task's first round reads.
RaceBooks == {<<10, 11, 12, 13, 14>>}
RaceFutAsks == {10}

\* start_close_task for one task of one lot while run() is at any point of
\* its tick.
CloseStartRace == CloseStartIn({LotSize}, 1)

\* The head of _run_close_task up to `self.pause()`; the sleep that follows
\* orders nothing between the two threads.
ClosePause ==
    /\ close_task.phase = "begin"
    /\ paused' = TRUE
    /\ close_task' = [close_task EXCEPT
                         !.pending_hedge = Max(0, close_task.close_pending),
                         !.carried = Max(0, close_task.close_pending),
                         !.phase = "paused", !.start = "none", !.asked = 0,
                         !.bought = FALSE]
    /\ UNCHANGED <<active_orders, level_to_oid, naked_exposure,
                   total_filled_base, total_hedged_base, requote_all_levels,
                   fill_queue, venue, pc, last, hres, sel, running,
                   hedge_threads>>

\* The loop of _cancel_all_orders.
CancelLevels(s, inflight) ==
    CancelLevelOrder(
        CancelLevelOrder(
            CancelLevelOrder([s EXCEPT !.u = 0], 1, inflight[1]),
            2, inflight[2]),
        3, inflight[3])

\* `has_orders = bool(self._active_orders)` and, with orders, the loop of
\* _cancel_all_orders over the levels read under the lock; the REST calls
\* run outside the lock.  hres keeps the thread's total_unhedged.
CloseCancelLevels ==
    /\ close_task.phase = "paused"
    /\ IF DOMAIN active_orders = {}
       THEN /\ close_task' = [close_task EXCEPT !.phase = "round"]
            /\ hres' = [called |-> TRUE, u |-> 0, found |-> 0, handed |-> 0]
            /\ UNCHANGED <<active_orders, naked_exposure, total_filled_base,
                           total_hedged_base, fill_queue, venue>>
       ELSE \E inflight \in Inflights(St) :
            \E s \in {CancelLevels(St, inflight)} :
               /\ active_orders' = s.ao
               /\ naked_exposure' = s.naked
               /\ total_filled_base' = s.filled
               /\ total_hedged_base' = s.hedged
               /\ fill_queue' = s.q
               /\ venue' = s.ven
               /\ hres' = [called |-> TRUE, u |-> s.u, found |-> s.found,
                           handed |-> 0]
               /\ close_task' = [close_task EXCEPT !.phase = "cancelling"]
    /\ UNCHANGED <<level_to_oid, paused, requote_all_levels, pc, last, sel,
                   running, hedge_threads>>

\* The end of _cancel_all_orders in the close task's thread, `with
\* self._state_lock: clear(); clear()`, and the hedge of what it returned.
CloseCancelClear ==
    /\ close_task.phase = "cancelling"
    /\ WithinLedger
    /\ \E resp \in SpecScripts :
       \E s \in {HedgeFound([ClearOrders(St) EXCEPT !.u = hres.u], resp)} :
          /\ active_orders' = s.ao
          /\ level_to_oid' = s.l2o
          /\ naked_exposure' = s.naked
          /\ total_hedged_base' = s.hedged
          /\ hres' = [hres EXCEPT !.handed = s.handed]
    /\ close_task' = [close_task EXCEPT !.phase = "round"]
    /\ UNCHANGED <<total_filled_base, paused, requote_all_levels, fill_queue,
                   venue, pc, last, sel, running, hedge_threads>>

\* The first round of the close task: its sells are placed.
CloseRoundRace ==
    CloseRoundFrom(RaceBooks, RaceFutAsks, CloseRoundsExplored)

NextRace ==
    \/ TickPaused
    \/ TickReconcile
    \/ TickRecover
    \/ TickQuoteStop
    \/ TickPost
    \/ StopFill
    \/ CloseStartRace
    \/ ClosePause
    \/ CloseCancelLevels
    \/ CloseCancelClear
    \/ CloseRoundRace

SpecRace == InitEngine /\ [][NextRace]_vars

\* ------------------------------------------------------------------ properties

\* The steps that end a tick of run().
TickEnds == {"paused", "protect", "nodata", "guard", "noquote", "syncfail",
             "post"}

\* A tick of the Coordinator has just ended.
AfterTick == pc = "top" /\ last.step \in TickEnds

LedgerGap == total_filled_base - total_hedged_base - naked_exposure

\* C1: after every Coordinator tick the ledger gap
\* |total_filled_base - total_hedged_base - naked_exposure| is below two
\* lots: no filled unit is sold or counted twice.
LedgerGapBounded == AfterTick => Abs(LedgerGap) < 2 * LotSize

\* C2: after every Coordinator tick every tracked order has
\* 0 <= hedged_qty <= accounted_qty <= qty.
OrderQtyOrdered ==
    AfterTick =>
        \A o \in DOMAIN active_orders :
            /\ 0 <= active_orders[o].hedged_qty
            /\ active_orders[o].hedged_qty <= active_orders[o].accounted_qty
            /\ active_orders[o].accounted_qty <= active_orders[o].qty

\* A tick ended with an order partly credited: fully filled and accounted,
\* its hedge allocated in part only.
OrderPartlyHedged ==
    /\ AfterTick
    /\ \E o \in DOMAIN active_orders :
          /\ 0 < active_orders[o].hedged_qty
          /\ active_orders[o].hedged_qty < active_orders[o].accounted_qty
          /\ active_orders[o].accounted_qty = active_orders[o].qty

\* C3: active_orders and level_to_oid are in bijection after every mutation:
\* level_to_oid[lv] = id exactly when id is tracked with level_idx = lv.
LevelsBijective ==
    /\ \A lv \in DOMAIN level_to_oid :
          /\ level_to_oid[lv] \in DOMAIN active_orders
          /\ active_orders[level_to_oid[lv]].level_idx = lv
    /\ \A o \in DOMAIN active_orders :
          /\ active_orders[o].level_idx \in DOMAIN level_to_oid
          /\ level_to_oid[active_orders[o].level_idx] = o

\* The fully-filled cleanup removed level 1 while the other levels stay
\* tracked.
CleanupLeftLadder ==
    /\ last.l1done
    /\ DOMAIN level_to_oid = {2, 3}
    /\ Cardinality(DOMAIN active_orders) = 2

\* C4: total_filled_base <= total_budget + lot_size in every reachable state.
BudgetRespected == total_filled_base <= TotalBudget + LotSize

\* C5: no spot buy order is placed while naked_exposure >= lot_size.
NoPlaceWhileNaked == ~last.nakedPlace

\* A tick found naked exposure of a lot or more after its cancels and ended
\* without placing anything.
NakedTickPlacedNothing ==
    /\ last.step \in {"protect", "syncfail"}
    /\ naked_exposure >= LotSize
    /\ last.cancelled # {}
    /\ last.placed = {}

SelectAllOrNothing ==
    sel.called =>
        LET r == sel.result
            Fails(i) ==
                \/ i > Len(sel.bids)
                \/ sel.bids[i].price <= 0
                \/ (sel.fut - sel.bids[i].price) * 10000
                     < MinSpreadBps * sel.bids[i].price
        IN  /\ \/ r = << >>
               \/ /\ Len(r) = 3
                  /\ \A i \in 1..3 :
                        /\ r[i].level_idx = i
                        /\ r[i].price = sel.bids[i].price
                        /\ r[i].price > 0
                        /\ (sel.fut - r[i].price) * 10000
                             >= MinSpreadBps * r[i].price
                        /\ r[i].qty >= sel.min_order_qty
            /\ (\E i \in 1..3 : Fails(i)) => r = << >>

\* A selection returned a full ladder whose quantities differ between
\* levels.
SelectedFullLadder ==
    /\ sel.called
    /\ Len(sel.result) = 3
    /\ sel.result[1].qty # sel.result[3].qty

\* C9 in its weakest reading: once the events of one order are reconciled
\* with every hedge accepted, total_hedged_base and the order's hedged_qty
\* are within less than one lot of the quantity F filled.
RoundTrip ==
    (last.step = "reconciled" /\ fill_queue = << >>) =>
        /\ Abs(total_hedged_base - venue[1].filled) < LotSize
        /\ \A o \in DOMAIN active_orders :
              Abs(active_orders[o].hedged_qty - venue[1].filled) < LotSize

\* C10: try_hedge(qty) with floor((qty + naked_exposure) / lot) * lot below
\* one lot places no perpetual order, sets naked_exposure to
\* qty + naked_exposure and returns (true, 0).
SubLotHedgeAccumulates ==
    (hres.called /\ FloorLot(hres.qty + hres.naked_before) < LotSize) =>
        /\ hres.submits = 0
        /\ naked_exposure = hres.qty + hres.naked_before
        /\ total_hedged_base = hres.hedged_before
        /\ hres.ok
        /\ hres.hedged_qty = 0

\* A sub-lot quantity was handed to try_hedge and is now carried.
SubLotCarried ==
    /\ hres.called
    /\ hres.qty > 0
    /\ hres.qty + hres.naked_before < LotSize
    /\ naked_exposure = hres.qty

\* The quantity a try_hedge call had to cover and the lots in it.
HedgeTotal == hres.qty + hres.naked_before
HedgeLots == FloorLot(HedgeTotal)

RetriesExhausted ==
    (/\ hres.called
     /\ HedgeLots >= LotSize
     /\ \A i \in 1..MaxRetry : hres.resp[i] = "err") =>
        /\ hres.submits >= 1 /\ hres.submits <= MaxRetry
        /\ naked_exposure = HedgeTotal
        /\ total_hedged_base = hres.hedged_before
        /\ ~hres.ok
        /\ hres.hedged_qty = 0

\* Every attempt of a call failed and the whole quantity, new and carried,
\* went to naked_exposure.
ExhaustedToNaked ==
    /\ hres.called
    /\ hres.resp = AllErr
    /\ hres.qty > 0 /\ hres.naked_before > 0
    /\ hres.submits = MaxRetry
    /\ naked_exposure = HedgeTotal

\* C14: every call try_hedge(qty) with qty >= 0 conserves quantity:
\* qty + naked_exposure before = the increase of total_hedged_base +
\* naked_exposure after, the increase being 0 or
\* floor((qty + naked_exposure) / lot) * lot.
HedgeConserves ==
    hres.called =>
        /\ HedgeTotal
             = (total_hedged_base - hres.hedged_before) + naked_exposure
        /\ total_hedged_base - hres.hedged_before \in {0, HedgeLots}

\* A sell was accepted and left a residual below one lot.
HedgedWithResidual ==
    /\ hres.called
    /\ total_hedged_base - hres.hedged_before >= LotSize
    /\ naked_exposure > 0
    /\ naked_exposure < LotSize

\* C15: whenever the venue accepts the market sell inside try_hedge, the
\* call returns ok = true with hedged_base = hedge_qty, also when a residual
\* below one lot is left in naked_exposure.
AcceptedReportsSuccess ==
    \A k \in 1..MaxRetry :
        (/\ hres.called
         /\ HedgeLots >= LotSize
         /\ hres.resp[k] = "ok"
         /\ \A j \in 1..(k - 1) : hres.resp[j] = "err") =>
            /\ hres.ok
            /\ hres.hedged_qty = HedgeLots

\* C11: a quantity that could not be hedged because it was below the
\* hedgeable size stays carried in naked_exposure and is never discarded
\* (every filled unit is sold or carried); once later fills bring the total
\* to a size the venue accepts, one aggregated sell covers it and
\* naked_exposure is below one lot again.
CarriedUntilHedged ==
    /\ total_filled_base = total_hedged_base + naked_exposure
    /\ (/\ last.step = "hedge"
        /\ HedgeLots >= LotSize
        /\ hres.resp[1] = "ok") =>
           /\ hres.submits = 1
           /\ total_hedged_base = hres.hedged_before + HedgeLots
           /\ naked_exposure < LotSize

SyncedMatchesDesired ==
    last.step = "synced" =>
        \/ paused
        \/ naked_exposure >= LotSize
        \/ \A i \in DOMAIN last.desired :
              ~NeedRepriceLevel(St, last.desired[i].level_idx,
                                last.desired[i].price, last.desired[i].qty)

\* C20: _sync_orders cancels no order whose level is not in desired, and a
\* tick whose selection is empty while orders are tracked, with neither the
\* drift branch nor the requote branch taken, cancels nothing, places nothing
\* and leaves active_orders and level_to_oid unchanged.
EmptySelectionKeepsLadder ==
    [][pc = "quote" =>
        /\ last'.step \in {"synced", "syncfail"} =>
              \A o \in last'.cancelled \cap DOMAIN active_orders :
                  active_orders[o].level_idx
                      \in {last'.desired[i].level_idx :
                              i \in DOMAIN last'.desired}
        /\ (/\ last'.step = "noquote"
            /\ ~last'.drift
            /\ ~last'.reqReset) =>
               /\ last'.cancelled = {}
               /\ last'.placed = {}
               /\ active_orders' = active_orders
               /\ level_to_oid' = level_to_oid]_vars

\* A tick selected nothing and left a tracked ladder of three orders alone.
LadderKeptOnEmpty ==
    /\ last.step = "noquote"
    /\ ~last.drift /\ ~last.reqReset
    /\ Cardinality(DOMAIN active_orders) = 3
    /\ last.cancelled = {}

\* The steps of run() that went through the drift check.
PastDriftCheck == {"noquote", "syncfail", "synced"}

Reconciles == {"reconciled", "pulled", "pulled_only"}
Pulls == {"pulled", "pulled_only"}

\* C21: accounted_qty of every order and total_filled_base never decrease
\* over push events and pull results; a reconciliation that reads only stale
\* events (cum_filled not above accounted_qty) and order-not-found sentinels
\* changes neither the orders nor the ledger.
FillsNeverRegress ==
    [][/\ total_filled_base' >= total_filled_base
       /\ \A o \in DOMAIN active_orders \cap DOMAIN active_orders' :
             active_orders'[o].accounted_qty >= active_orders[o].accounted_qty
       /\ (/\ last'.step \in Reconciles
           /\ \A o \in DOMAIN active_orders :
                 /\ o \in DOMAIN DrainedFills(St) =>
                       DrainedFills(St)[o] <= active_orders[o].accounted_qty
                 /\ last'.step \in Pulls =>
                       Pull(St, o) <= active_orders[o].accounted_qty) =>
              /\ active_orders' = active_orders
              /\ level_to_oid' = level_to_oid
              /\ total_filled_base' = total_filled_base
              /\ total_hedged_base' = total_hedged_base
              /\ naked_exposure' = naked_exposure]_vars

\* C22: a reconciliation whose periodic pull is due leaves every order that
\* the venue knows and that stays tracked with accounted_qty equal to the
\* venue's cumulative filled quantity, and the hedger has received at least
\* the quantity newly accounted (naked_exposure + total_hedged_base grew by
\* it), whether or not a push event was delivered.
PullAccountsLostFill ==
    [][last'.step \in Pulls =>
          \A o \in DOMAIN active_orders \cap DOMAIN active_orders' :
              venue[o].qty > 0 =>
                  /\ active_orders'[o].accounted_qty = venue[o].filled
                  /\ (naked_exposure' + total_hedged_base')
                        - (naked_exposure + total_hedged_base)
                     >= active_orders'[o].accounted_qty
                          - active_orders[o].accounted_qty]_vars

\* A pull with no event in the queue accounted a fill and the hedger sold it.
LostFillPulled ==
    /\ last.step = "pulled_only"
    /\ 1 \in DOMAIN active_orders
    /\ active_orders[1].accounted_qty = venue[1].filled
    /\ active_orders[1].accounted_qty >= LotSize
    /\ total_filled_base = total_hedged_base
    /\ total_hedged_base = venue[1].filled

\* C30: right after _cancel_level_order, with the venue answering its
\* queries, the order's accounted_qty equals the venue's final cumulative
\* filled quantity, whatever filled between the first detection and the
\* cancel and whatever push event is in the queue.
CancelCapturesFills ==
    (last.step = "cancelled" /\ 1 \in DOMAIN active_orders) =>
        active_orders[1].accounted_qty = venue[1].filled

\* C23: whenever no thread is inside try_hedge or try_recover_naked_exposure
\* or about to hand a fill to try_hedge, naked_exposure and total_hedged_base are those some serial order of the
\* operations begun so far (hedges, recoveries, gap checks, transfers of the
\* close task) leaves: no increment made between a hedger's snapshot and its
\* commit is lost.
HedgesLinearizable ==
    (\A t \in Threads : hedge_threads.call[t].kind = "none") =>
        \E c \in SerialOutcomes(hedge_threads.ops) :
            /\ c.naked = naked_exposure
            /\ c.hedged = total_hedged_base

\* C24: at most one close task is active; a start_close_task called while
\* one runs returns failure and starts nothing; when a task ends, normally
\* or by exception, the running flag is cleared, and a start for a positive
\* quantity with the flag clear succeeds.
CloseTaskExclusive ==
    [][/\ close_task'.threads <= 1
       /\ (close_task.running /\ close_task'.start # "none") =>
             /\ close_task'.start = "refused"
             /\ close_task'.threads = close_task.threads
             /\ close_task'.runs = close_task.runs
             /\ close_task'.phase = close_task.phase
       /\ close_task'.threads < close_task.threads =>
             /\ ~close_task'.running
             /\ close_task'.ended \in {"normal", "exception"}
       /\ (~close_task.running /\ close_task'.start # "none"
             /\ close_task'.asked > 0) =>
             /\ close_task'.start = "ok"
             /\ close_task'.running
             /\ close_task'.threads = 1]_vars

\* A second close task was started after the first ended by exception.
StartedAfterFailure ==
    /\ close_task.start = "ok"
    /\ close_task.runs = 2
    /\ close_task.ended = "exception"
    /\ close_task.threads = 1

\* C25: a round of the close task that places sells places them at the
\* prices of ask 2 and ask 3 of the book it read, never at ask 1, and only
\* when (price - perp_ask) / price >= min_spread for both prices; a round that
\* fails either test places nothing.
CloseQuotesAsk23 ==
    close_task.placed # {} =>
        /\ Len(close_task.asks) >= 3
        /\ \A p \in close_task.placed :
              /\ p.price \in {close_task.asks[2], close_task.asks[3]}
              /\ p.price # close_task.asks[1]
        /\ (close_task.asks[2] - close_task.fut_ask) * 10000
              >= MinSpreadBps * close_task.asks[2]
        /\ (close_task.asks[3] - close_task.fut_ask) * 10000
              >= MinSpreadBps * close_task.asks[3]

\* A round placed a sell at ask 2 and one at ask 3.
BothAsksQuoted ==
    /\ close_task.phase = "open"
    /\ {p.price : p \in close_task.placed}
          = {close_task.asks[2], close_task.asks[3]}
    /\ Cardinality(close_task.placed) = 2

\* C26: throughout a close task, sold = perp_bought + pending_hedge - the
\* pending hedge carried in at its start, and after a successful perpetual
\* buy pending_hedge is below lot_size.
CloseLedgerBalanced ==
    /\ close_task.sold = close_task.perp_bought + close_task.pending_hedge
                            - close_task.carried
    /\ close_task.bought => close_task.pending_hedge < LotSize

\* A buy left a residual pending: three units sold, one lot bought.
BoughtWithResidual ==
    /\ close_task.bought
    /\ close_task.sold = LotSize + 1
    /\ close_task.perp_bought = LotSize
    /\ close_task.pending_hedge = 1

\* C27: a close task runs at most 200 rounds; from the loop's head with less
\* than min_order_qty remaining its next step leaves the loop (or ends it by
\* exception); a task that is running eventually has ended; and whenever no
\* task runs the status reports running = false.
CloseTerminates ==
    /\ [](close_task.round <= MaxCloseRounds)
    /\ [](close_task.threads = 0 => ~close_task.status)
    /\ [][(/\ close_task.phase = "round"
           /\ Max(0, close_task.target_qty - close_task.sold) < MinOrderQty) =>
              close_task'.phase \in {"done", "idle"}]_vars
    /\ (close_task.running ~> (close_task.threads = 0 /\ ~close_task.running))

\* A task ended because its 200 rounds were used up, and reports it.
RoundsExhausted ==
    /\ close_task.ended = "normal"
    /\ close_task.threads = 0
    /\ ~close_task.status
    /\ close_task.round = MaxCloseRounds
    /\ close_task.target_qty - close_task.sold >= MinOrderQty

\* C28: when a close task ends, naked_exposure grows by exactly the residual
\* pending hedge, and a residual so transferred is not kept in
\* close_pending_hedge for the next close task.
ResidualTransferredOnce ==
    [][close_task'.threads < close_task.threads =>
          /\ naked_exposure' = naked_exposure + close_task.pending_hedge
          /\ close_task.pending_hedge > 0 =>
                close_task'.close_pending = 0]_vars

\* C29 as stated: once run() has exited and the cleanup has run, no order of
\* active_orders is open at the venue.
StopCancelsAll ==
    pc = "stopped" => \A o \in DOMAIN active_orders : ~venue[o].open

\* C29, amended: once running is false no tick begins: the only step the
\* loop takes from its test is the exit; a tick under way, raising or not,
\* only moves on towards that test; the cleanup sends a cancel for every
\* order of active_orders, and every order whose cancel did not raise is
\* closed at the venue; from the test with running false the engine always
\* reaches the end of the cleanup.
StopIsGraceful ==
    /\ [][(~running /\ pc = "top") => pc' \in {"top", "exited"}]_vars
    /\ [][pc = "recover" => pc' \in {"recover", "quote", "top"}]_vars
    /\ [][pc = "quote" => pc' \in {"quote", "post", "top"}]_vars
    /\ [][pc = "post" => pc' \in {"post", "top"}]_vars
    /\ [][pc = "exited" =>
            /\ pc' = "stopped"
            /\ \A o \in DOMAIN active_orders :
                  /\ o \in last'.cancelled
                  /\ o \notin last'.failed => ~venue'[o].open]_vars
    /\ ((~running /\ pc = "top") ~> pc = "stopped")

\* The cleanup closed a ladder of two or more orders that were open.
StoppedClean ==
    /\ pc = "stopped"
    /\ last.failed = {}
    /\ Cardinality(last.cancelled) >= 2
    /\ last.cancelled = DOMAIN active_orders
    /\ \A o \in DOMAIN active_orders : ~venue[o].open /\ venue[o].qty > 0

\* C33: a call of try_recover_naked_exposure whose sell is rejected as
\* notional too small (after transient errors or none) leaves naked_exposure
\* at 0 and returns success; with 0 < naked_exposure < lot_size it returns
\* success and submits nothing; when every attempt fails transiently it
\* returns failure and leaves naked_exposure and total_hedged_base as they
\* were; on a successful sell total_hedged_base grows and naked_exposure
\* shrinks by the lot-floored exposure.
RecoverNeverWedges ==
    hres.called =>
        LET n == hres.naked_before
            h == hres.hedged_before
            resp == hres.resp
            First(a) == \E i \in 1..MaxRetry :
                           resp[i] = a /\ \A j \in 1..(i - 1) : resp[j] = "err"
        IN  /\ (n >= LotSize /\ First("small")) =>
                   hres.ok /\ naked_exposure = 0 /\ total_hedged_base = h
            /\ (0 < n /\ n < LotSize) =>
                   /\ hres.ok /\ hres.submits = 0
                   /\ naked_exposure = n /\ total_hedged_base = h
            /\ (n >= LotSize /\ \A i \in 1..MaxRetry : resp[i] = "err") =>
                   /\ ~hres.ok /\ hres.submits = MaxRetry
                   /\ naked_exposure = n /\ total_hedged_base = h
            /\ (n >= LotSize /\ First("ok")) =>
                   /\ hres.ok
                   /\ total_hedged_base = h + (n \div LotSize) * LotSize
                   /\ naked_exposure = n - (n \div LotSize) * LotSize

\* A recovery of more than a lot was rejected as notional too small after a
\* transient error, and the exposure was written off.
DustWrittenOff ==
    /\ hres.called /\ hres.ok
    /\ hres.naked_before > LotSize
    /\ hres.resp[1] = "err" /\ hres.resp[2] = "small"
    /\ naked_exposure = 0

\* C35: the dictionary drain_fill_queue returns holds, for every active
\* order that has an event in the queue, the largest cumulative quantity
\* among its events, whatever their order of arrival, and holds nothing for
\* an order that is not active.
DrainYieldsMax ==
    hres.called =>
        LET ev == hres.events
            of(o) == {ev[i].filled_qty : i \in {j \in DOMAIN ev : ev[j].order_id = o}}
        IN  /\ DOMAIN hres.fills =
                  {o \in DOMAIN active_orders : of(o) # {}}
            /\ \A o \in DOMAIN hres.fills :
                  /\ hres.fills[o] \in of(o)
                  /\ \A c \in of(o) : c <= hres.fills[o]

\* C34 as stated: a gap check that runs with gap >= lot_size brings the gap
\* back to 0 by raising naked_exposure and attempts a hedge; with
\* gap <= -lot_size it logs a warning and changes no counter; with
\* |gap| < lot_size it changes nothing.
GapCheckAsStated ==
    hres.called =>
        LET gap == hres.filled_before - hres.hedged_before - hres.naked_before
            same == /\ naked_exposure = hres.naked_before
                    /\ total_hedged_base = hres.hedged_before
                    /\ total_filled_base = hres.filled_before
        IN  /\ gap >= LotSize =>
                  /\ total_filled_base - total_hedged_base - naked_exposure = 0
                  /\ total_filled_base = hres.filled_before
                  /\ hres.submits >= 1
            /\ gap <= -LotSize => hres.warned /\ same
            /\ (-LotSize < gap /\ gap < LotSize) => same

\* C34, amended: the warning is logged when gap < -lot_size only; with
\* -lot_size <= gap < lot_size nothing changes and nothing is logged; the
\* case gap >= lot_size is as stated, the quantity added to naked_exposure
\* being the gap and total_hedged_base + naked_exposure growing by it.
GapCheckRestores ==
    hres.called =>
        LET gap == hres.filled_before - hres.hedged_before - hres.naked_before
            same == /\ naked_exposure = hres.naked_before
                    /\ total_hedged_base = hres.hedged_before
                    /\ total_filled_base = hres.filled_before
        IN  /\ gap >= LotSize =>
                  /\ total_filled_base - total_hedged_base - naked_exposure = 0
                  /\ total_filled_base = hres.filled_before
                  /\ total_hedged_base + naked_exposure
                        = hres.hedged_before + hres.naked_before + gap
                  /\ hres.submits >= 1
                  /\ ~hres.warned
            /\ gap < -LotSize => hres.warned /\ same
            /\ (-LotSize <= gap /\ gap < LotSize) => ~hres.warned /\ same

\* A gap of a lot or more was found and hedged.
GapHedged ==
    /\ hres.called
    /\ hres.filled_before - hres.hedged_before - hres.naked_before >= LotSize
    /\ total_hedged_base > hres.hedged_before
    /\ total_filled_base - total_hedged_base - naked_exposure = 0

\* C36: a run of check_fills_and_hedge in which every event drained and
\* every quantity pulled equals the accounted_qty of its order (the source
\* reports what was already processed) changes none of total_filled_base,
\* total_hedged_base and naked_exposure.
ReconcileIdempotent ==
    [][(/\ last'.step \in {"reconciled", "pulled", "pulled_only"}
        /\ \A i \in DOMAIN fill_queue :
              fill_queue[i].order_id \in DOMAIN active_orders =>
                 fill_queue[i].filled_qty =
                    active_orders[fill_queue[i].order_id].accounted_qty
        /\ last'.step \in {"pulled", "pulled_only"} =>
              \A o \in DOMAIN active_orders :
                 Pull(St, o) >= 0 => Pull(St, o) = active_orders[o].accounted_qty)
       => /\ total_filled_base' = total_filled_base
          /\ total_hedged_base' = total_hedged_base
          /\ naked_exposure' = naked_exposure]_vars

\* C32: after a run of check_fills_and_hedge, every order that left the maps
\* was removed by the callback with hedged_qty >= qty, from active_orders
\* and from level_to_oid; an order whose hedged_qty is below its qty is still
\* tracked in both maps, fully filled at the venue or not; and
\* requote_all_levels was set exactly when a level-1 order was removed
\* (removing a level-2 or level-3 order leaves the flag as it was).
FullyFilledLeavesHedged ==
    hres.called =>
        /\ \A o \in DOMAIN hres.ao \ DOMAIN active_orders :
              \E c \in hres.closed : c.oid = o
        /\ \A c \in hres.closed :
              /\ c.order.hedged_qty >= c.order.qty
              /\ c.order = [hres.ao[c.oid] EXCEPT
                               !.hedged_qty = c.order.hedged_qty,
                               !.accounted_qty = c.order.accounted_qty]
              /\ c.oid \notin DOMAIN active_orders
              /\ c.order.level_idx \notin DOMAIN level_to_oid
        /\ \A o \in DOMAIN active_orders :
              /\ level_to_oid[active_orders[o].level_idx] = o
              /\ active_orders[o].hedged_qty < active_orders[o].qty
                    \/ active_orders[o].accounted_qty < active_orders[o].qty
        /\ requote_all_levels =
              (hres.requote \/ \E c \in hres.closed : c.order.level_idx = 1)

\* A level-2 order was removed as fully filled and hedged while level 1 still
\* rests, and the flag is clear; another order is fully filled at the venue
\* with no hedge credited, and is still tracked.
Level2ClosedNoRequote ==
    /\ hres.called
    /\ \E c \in hres.closed : c.order.level_idx = 2
    /\ 1 \in DOMAIN level_to_oid
    /\ ~requote_all_levels
    /\ \E o \in DOMAIN active_orders :
          /\ venue[o].filled = venue[o].qty
          /\ active_orders[o].hedged_qty = 0

\* C40: the sells a round of the close task places sum to at most
\* target_qty - sold, and the task's spot_sold never exceeds target_qty.
CloseNeverOversells ==
    /\ [](close_task.sold <= close_task.target_qty)
    /\ [][(close_task.phase = "round" /\ close_task'.phase = "open") =>
            SumOver([o \in DOMAIN close_task'.open_orders |->
                        close_task'.open_orders[o].qty],
                    DOMAIN close_task'.open_orders)
              <= close_task.target_qty - close_task.sold]_vars

=============================================================================
